---- MODULE Spec2Model ----
(***************************************************************************)
(* Model of manipuPom's dependency-graph engine (src/src/deps_graph.py):   *)
(* the descriptor extractor and graph builder, and the query functions     *)
(* over the built networkx DiGraph.                                        *)
(*                                                                         *)
(* Strings are TLA+ strings; formatting (f"{group}:{artifact}",            *)
(* ', '.join(...)) is string concatenation, and Python's str ordering      *)
(* (used by sorted() and min()) is the code-point lexicographic order      *)
(* StrLt below.                                                            *)
(***************************************************************************)
EXTENDS Integers, Sequences, FiniteSets, TLC

VARIABLES
    G,          \* the nx.DiGraph: [nodes, edges], edges a set of <<from, to>>
    op,         \* which operation ran last ("none" before any)
    arg,        \* the argument of that operation
    result,     \* what it returned (or the error it raised)
    flags,      \* include_group_id / included_groups / excluded_groups of the build
    pom,        \* the descriptor build_dependency_graph processed last
    extracted,  \* what extract_dependencies returned for it
    projects,   \* the groups of the descriptors processed so far
    locals,     \* the local variables of a traversal that is under way
    files       \* the files on disk: a function from paths to contents

vars == <<G, op, arg, result, flags, pom, extracted, projects, locals, files>>

----------------------------------------------------------------------------
(* Bounds of the model *)

\* largest number of edges of a graph the queries are run on
MaxEdges == 4
\* longest list of artifacts given to minimal_subgraph_for_artifacts
MaxArtifacts == 2
\* largest number of <dependency> elements of one descriptor
MaxDeps == 2
\* largest number of descriptors found under the directory
MaxPoms == 2
MaxSteps == 40
MaxLines == 4
\* files in a directory of build logs
MaxLogs == 2

\* node identifiers of the graphs the queries are run on
NodeIds == {"a", "ab", "b", "c"}

\* None of Python, and the empty graph/tree values
None == "<None>"

\* no traversal is under way
NoLocals == [pc |-> "idle"]

\* no file is looked at
NoFiles == << >>

----------------------------------------------------------------------------
(* Python str ordering: lexicographic by code point *)

\* the characters used by the model's identifiers, in code-point order
CodePoints ==
    <<".", "/", "1", "2", ":", "a", "b", "c", "d", "g", "k", "l", "m", "o", "p", "x">>

ord(ch) == CHOOSE i \in 1..Len(CodePoints) : CodePoints[i] = ch

RECURSIVE StrLt(_, _)
\* s < t for Python strings
StrLt(s, t) ==
    IF Len(t) = 0 THEN FALSE
    ELSE IF Len(s) = 0 THEN TRUE
    ELSE LET cs == ord(SubSeq(s, 1, 1))
             ct == ord(SubSeq(t, 1, 1))
         IN IF cs # ct THEN cs < ct
            ELSE StrLt(SubSeq(s, 2, Len(s)), SubSeq(t, 2, Len(t)))

\* min(S) of a non-empty collection of strings
min(S) == CHOOSE x \in S : \A y \in S : x = y \/ StrLt(x, y)

RECURSIVE sorted(_)
\* sorted(S) of a set of strings, as a list
sorted(S) ==
    IF S = {} THEN << >>
    ELSE LET m == min(S) IN <<m>> \o sorted(S \ {m})

\* the elements of a list
Elems(s) == {s[i] : i \in 1..Len(s)}

RECURSIVE join(_, _)
\* sep.join(list)
join(sep, list) ==
    IF Len(list) = 0 THEN ""
    ELSE IF Len(list) = 1 THEN list[1]
    ELSE list[1] \o sep \o join(sep, Tail(list))

----------------------------------------------------------------------------
(* networkx.DiGraph *)

DiGraph == [nodes |-> {}, edges |-> {}]

successors(H, n) == {t \in H.nodes : <<n, t>> \in H.edges}

\* G.reverse(copy=True): a fresh graph, same nodes, every edge inverted
reverse(H) == [nodes |-> H.nodes, edges |-> {<<e[2], e[1]>> : e \in H.edges}]

predecessors(H, n) == {s \in H.nodes : <<s, n>> \in H.edges}

RECURSIVE bfs_edges(_, _, _, _)
\* the children nx.bfs_edges yields from a source: the source is marked
\* visited up front, so it is never yielded
bfs_edges(H, visited, frontier, found) ==
    IF frontier = {} THEN found
    ELSE LET new == UNION {successors(H, s) : s \in frontier} \ visited
         IN bfs_edges(H, visited \cup new, new, found \cup new)

RECURSIVE bfs_edges_reverse(_, _, _, _)
\* nx.bfs_edges(G, source, reverse=True): the same walk over predecessors
bfs_edges_reverse(H, visited, frontier, found) ==
    IF frontier = {} THEN found
    ELSE LET new == UNION {predecessors(H, s) : s \in frontier} \ visited
         IN bfs_edges_reverse(H, visited \cup new, new, found \cup new)

\* descendants that forgets to hold the source back
descendants_with_source(H, source) == bfs_edges(H, {}, {source}, {})

\* nx.descendants(G, source)
descendants(H, source) == bfs_edges(H, {source}, {source}, {})

\* ancestors that walks the edges forward
ancestors_forward(H, source) == bfs_edges(H, {source}, {source}, {})

\* nx.ancestors(G, source)
ancestors(H, source) == bfs_edges_reverse(H, {source}, {source}, {})

RECURSIVE extend_paths(_, _, _)
\* all simple directed paths of H that extend path p and end in v
extend_paths(H, p, v) ==
    IF p[Len(p)] = v THEN {p}
    ELSE UNION {extend_paths(H, Append(p, t), v) :
                    t \in successors(H, p[Len(p)]) \ Elems(p)}

\* shortest paths that ignore the direction of the edges
shortest_path_undirected(H, u, v) ==
    LET U == [nodes |-> H.nodes, edges |-> H.edges \cup reverse(H).edges]
        all == extend_paths(U, <<u>>, v)
    IN {p \in all : \A q \in all : Len(p) <= Len(q)}

\* the paths nx.shortest_path(G, source=u, target=v) can return: any directed
\* u -> v path of minimal length (which one depends on adjacency order);
\* the empty set stands for NetworkXNoPath
shortest_path(H, u, v) ==
    LET all == extend_paths(H, <<u>>, v)
    IN {p \in all : \A q \in all : Len(p) <= Len(q)}

----------------------------------------------------------------------------
(* Query functions of deps_graph.py *)

\* variant: the membership test is left out and the module itself is listed
get_transitive_dependencies_unguarded(H, module) ==
    sorted(descendants(H, module) \cup ({module} \ H.nodes))

get_transitive_dependencies(H, module) ==
    IF module \notin H.nodes THEN << >>
    ELSE sorted(descendants(H, module))

get_transitive_dependents(H, module) ==
    IF module \notin H.nodes THEN << >>
    ELSE sorted(ancestors(H, module))

RECURSIVE scan_successors(_, _, _, _)
\* the for loop over sorted(G.successors(current)) of the BFS;
\* st = [distances, parents_by_dist, queue]
scan_successors(st, current, current_dist, succ) ==
    IF succ = << >> THEN st
    ELSE LET next_node == Head(succ)
             st2 == IF next_node \notin DOMAIN st.distances
                    THEN [distances |-> (next_node :> current_dist + 1) @@ st.distances,
                          parents_by_dist |-> (next_node :> <<current>>) @@ st.parents_by_dist,
                          queue |-> Append(st.queue, next_node)]
                    ELSE IF st.distances[next_node] = current_dist + 1
                    THEN [st EXCEPT !.parents_by_dist[next_node] = Append(@, current)]
                    ELSE st
         IN scan_successors(st2, current, current_dist, Tail(succ))

RECURSIVE bfs_loop(_, _)
\* while queue: current = queue.popleft(); ...
bfs_loop(H, st) ==
    IF st.queue = << >> THEN st
    ELSE LET current == Head(st.queue)
             popped == [st EXCEPT !.queue = Tail(@)]
         IN bfs_loop(H, scan_successors(popped, current, st.distances[current],
                                        sorted(successors(H, current))))

\* the tie-break that takes the largest parent
choose_parent_largest(parents) ==
    CHOOSE x \in Elems(parents) : \A y \in Elems(parents) : x = y \/ StrLt(y, x)

\* parent = min(parents_by_dist[node])
choose_parent(parents) == min(Elems(parents))

\* variant: a node is added under every parent recorded for it
tree_children_every_parent(st, module) ==
    [p \in DOMAIN st.distances |->
        {n \in DOMAIN st.distances \ {module} :
            p \in Elems(st.parents_by_dist[n])}]

\* children[parent].add(node) for every node but the module
tree_children(st, module) ==
    [p \in DOMAIN st.distances |->
        {n \in DOMAIN st.distances \ {module} :
            /\ st.parents_by_dist[n] # << >>
            /\ choose_parent(st.parents_by_dist[n]) = p}]

RECURSIVE build(_, _)
\* the nested dict {child: build(child)}: a function from the keys to subtrees
build(children, node) == [child \in children[node] |-> build(children, child)]

get_transitive_dependencies_tree_shortest(H, module) ==
    IF module \notin H.nodes THEN << >>
    ELSE LET st == bfs_loop(H, [distances |-> (module :> 0),
                                parents_by_dist |-> (module :> << >>),
                                queue |-> <<module>>])
         IN build(tree_children(st, module), module)

\* all_paths = False
get_transitive_dependencies_tree(H, module) ==
    IF module \notin H.nodes THEN << >>
    ELSE get_transitive_dependencies_tree_shortest(H, module)

\* the dependents tree built without reversing the graph
dependents_tree_unreversed(H, module) == get_transitive_dependencies_tree(H, module)

get_transitive_dependents_tree(H, module) ==
    get_transitive_dependencies_tree(reverse(H), module)

RECURSIVE build_all_paths_siblings_visited(_, _, _)
\* variant: all successors of a node are marked visited before descending
build_all_paths_siblings_visited(H, node, visited) ==
    [child \in successors(H, node) \ visited |->
        build_all_paths_siblings_visited(H, child, visited \cup successors(H, node))]

RECURSIVE build_all_paths(_, _, _)
\* build_all_paths(node, visited): a key for every successor not in visited
build_all_paths(H, node, visited) ==
    [child \in successors(H, node) \ visited |->
        build_all_paths(H, child, visited \cup {child})]

\* get_transitive_dependencies_tree(G, module, all_paths=True); visited=None
\* becomes the empty set
get_transitive_dependencies_tree_all_paths(H, module) ==
    IF module \notin H.nodes THEN << >>
    ELSE build_all_paths(H, module, {})

\* get_transitive_dependents_tree(G, module, all_paths=True)
get_transitive_dependents_tree_all_paths(H, module) ==
    get_transitive_dependencies_tree_all_paths(reverse(H), module)

\* variant: a self-loop is not counted as an incoming edge
in_degree_without_self_loops(H, n) ==
    Cardinality({e \in H.edges : e[2] = n /\ e[1] # n})

in_degree(H, n) == Cardinality({e \in H.edges : e[2] = n})

out_degree(H, n) == Cardinality({e \in H.edges : e[1] = n})

\* get_filtered_nodes(G, lambda n: G.in_degree(n) == 0)
get_module_roots(H) == sorted({n \in H.nodes : in_degree(H, n) = 0})

\* get_filtered_nodes(G, lambda n: G.out_degree(n) == 0)
get_module_leaves(H) == sorted({n \in H.nodes : out_degree(H, n) = 0})

\* the missing artifacts listed sorted instead of in request order
missing_artifacts_sorted(H, artifacts) ==
    sorted({a \in Elems(artifacts) : a \notin H.nodes})

\* missing = [a for a in artifacts if a not in G]
missing_artifacts(H, artifacts) ==
    SelectSeq(artifacts, LAMBDA a : a \notin H.nodes)

\* the ValueError raised for missing artifacts; no graph exists at that point
missing_error(missing) ==
    [kind |-> "ValueError",
     message |-> "Artifacts not found in graph: " \o join(", ", missing),
     H |-> None]

RECURSIVE dict_fromkeys(_, _)
\* list(dict.fromkeys(artifacts)): duplicates dropped, first-seen order kept
dict_fromkeys(artifacts, seen) ==
    IF artifacts = << >> THEN << >>
    ELSE IF Head(artifacts) \in seen THEN dict_fromkeys(Tail(artifacts), seen)
    ELSE <<Head(artifacts)>> \o dict_fromkeys(Tail(artifacts), seen \cup {Head(artifacts)})

\* variant: every unordered pair is taken once, in list order
ordered_pairs_once(arts) ==
    LET n == Len(arts)
        all == [k \in 1..(n * n) |-> <<((k - 1) \div n) + 1, ((k - 1) % n) + 1>>]
        once == SelectSeq(all, LAMBDA pr : pr[1] < pr[2])
    IN [k \in 1..Len(once) |-> <<arts[once[k][1]], arts[once[k][2]]>>]

\* the ordered pairs (u, v), u # v, in the order of the two nested loops
ordered_pairs(arts) ==
    LET n == Len(arts)
        all == [k \in 1..(n * n) |-> <<arts[((k - 1) \div n) + 1], arts[((k - 1) % n) + 1]>>]
    IN SelectSeq(all, LAMBDA pr : pr[1] # pr[2])

\* the path added with its edges in the direction of G
add_path_uninverted(H, path) ==
    [nodes |-> H.nodes \cup Elems(path),
     edges |-> H.edges \cup {<<path[i], path[i + 1]>> : i \in 1..(Len(path) - 1)}]

\* H.add_node(n) for n in path; H.add_edge(t, s) for each step (s, t) of it
add_inverted_path(H, path) ==
    [nodes |-> H.nodes \cup Elems(path),
     edges |-> H.edges \cup {<<path[i + 1], path[i]>> : i \in 1..(Len(path) - 1)}]

RECURSIVE connect_pairs(_, _, _)
\* the graphs the two nested loops can end with, one per choice of
\* shortest paths; a pair without a path is skipped
connect_pairs(H0, pairs, H) ==
    IF pairs = << >> THEN {H}
    ELSE LET paths == shortest_path(H0, Head(pairs)[1], Head(pairs)[2])
         IN IF paths = {} THEN connect_pairs(H0, Tail(pairs), H)
            ELSE UNION {connect_pairs(H0, Tail(pairs), add_inverted_path(H, p)) :
                            p \in paths}

\* variant: H starts as the subgraph of G induced by the artifacts
minimal_subgraph_for_artifacts_induced(H0, artifacts) ==
    LET missing == missing_artifacts(H0, artifacts)
        H == [nodes |-> Elems(artifacts),
              edges |-> {ed \in H0.edges : {ed[1], ed[2]} \subseteq Elems(artifacts)}]
    IN IF missing # << >> THEN {missing_error(missing)}
       ELSE IF Len(artifacts) <= 1 THEN {[kind |-> "graph", message |-> "", H |-> H]}
       ELSE {[kind |-> "graph", message |-> "", H |-> H2] :
                H2 \in connect_pairs(H0, ordered_pairs(dict_fromkeys(artifacts, {})), H)}

\* the outcomes of minimal_subgraph_for_artifacts(G, artifacts)
minimal_subgraph_for_artifacts(H0, artifacts) ==
    LET missing == missing_artifacts(H0, artifacts)
        H == [nodes |-> Elems(artifacts), edges |-> {}]
    IN IF missing # << >> THEN {missing_error(missing)}
       ELSE IF Len(artifacts) <= 1 THEN {[kind |-> "graph", message |-> "", H |-> H]}
       ELSE {[kind |-> "graph", message |-> "", H |-> H2] :
                H2 \in connect_pairs(H0, ordered_pairs(dict_fromkeys(artifacts, {})), H)}

----------------------------------------------------------------------------
(* Descriptor extractor and graph builder of deps_graph.py *)

\* groupId and artifactId texts of the descriptors; None stands for an element
\* that is missing or has no text
Groups == {"g1", "g2"}
Artifacts == {"a", "b"}
DependencyArtifacts == {"a"}

\* the <dependency> elements a descriptor can hold: with or without a groupId,
\* and one without artifactId
DependencyElems ==
    [groupId : Groups \cup {None}, artifactId : DependencyArtifacts]
        \cup {[groupId |-> None, artifactId |-> None]}

\* the descriptors: the project's own groupId and artifactId, and its
\* <dependency> elements (iter_deps)
Poms ==
    [groupId : Groups \cup {None},
     artifactId : Artifacts \cup {None},
     deps : {D \in SUBSET DependencyElems : Cardinality(D) <= MaxDeps}]

\* the flag settings; the empty set stands for None and for an empty set alike
\* (both are falsy in the filter test)
FlagSettings ==
    [include_group_id : BOOLEAN,
     included_groups : SUBSET Groups,
     excluded_groups : SUBSET Groups]

\* the filter test without its exclude half
filtered_out_include_only(group_id, included_groups, excluded_groups) ==
    included_groups # {} /\ group_id \notin included_groups

\* the filter test without its include half
filtered_out_exclude_only(group_id, included_groups, excluded_groups) ==
    excluded_groups # {} /\ group_id \in excluded_groups

\* the filter test that lets an included group through before looking at the
\* excluded ones
filtered_out_include_first(group_id, included_groups, excluded_groups) ==
    IF included_groups # {}
    THEN group_id \notin included_groups
    ELSE excluded_groups # {} /\ group_id \in excluded_groups

\* (included_groups and group_id not in included_groups) or
\* (excluded_groups and group_id in excluded_groups)
filtered_out(group_id, included_groups, excluded_groups) ==
    \/ (included_groups # {} /\ group_id \notin included_groups)
    \/ (excluded_groups # {} /\ group_id \in excluded_groups)

\* the project's artifact_name
artifact_name(p, include_group_id) ==
    IF include_group_id /\ p.groupId # None
    THEN p.groupId \o ":" \o p.artifactId
    ELSE p.artifactId

\* variant: the group is shown whatever the display mode
dependency_id_always_qualified(dep, include_group_id) ==
    IF dep.groupId # None
    THEN dep.groupId \o ":" \o dep.artifactId
    ELSE dep.artifactId

\* the artifact_id of a dependency that passed the filter
dependency_id(dep, include_group_id) ==
    IF dep.groupId # None
    THEN (IF include_group_id THEN dep.groupId \o ":" \o dep.artifactId
          ELSE dep.artifactId)
    ELSE dep.artifactId

\* the dependency_ids set built by the loop over iter_deps(root)
dependency_ids(p, f) ==
    {dependency_id(dep, f.include_group_id) :
        dep \in {d \in p.deps :
                    /\ d.artifactId # None
                    /\ ~(/\ d.groupId # None
                         /\ filtered_out(d.groupId, f.included_groups, f.excluded_groups))}}

\* variant: the group filter is applied before the artifactId is looked at
extract_dependencies_filter_first(p, f) ==
    IF p.groupId # None
       /\ filtered_out(p.groupId, f.included_groups, f.excluded_groups)
    THEN [exit |-> 0, artifact |-> None, deps |-> {}]
    ELSE IF p.artifactId = None
    THEN [exit |-> 1, artifact |-> None, deps |-> {}]
    ELSE [exit |-> 0, artifact |-> artifact_name(p, f.include_group_id),
          deps |-> dependency_ids(p, f)]

\* extract_dependencies(pom_path, ...): sys.exit(1), (None, set()) or
\* (artifact_name, dependency_ids)
extract_dependencies(p, f) ==
    IF p.artifactId = None
    THEN [exit |-> 1, artifact |-> None, deps |-> {}]
    ELSE IF p.groupId # None
            /\ filtered_out(p.groupId, f.included_groups, f.excluded_groups)
    THEN [exit |-> 0, artifact |-> None, deps |-> {}]
    ELSE [exit |-> 0, artifact |-> artifact_name(p, f.include_group_id),
          deps |-> dependency_ids(p, f)]

\* G.add_node(artifact); for d in deps: G.add_node(d); G.add_edge(artifact, d)
add_project(H, artifact, deps) ==
    [nodes |-> H.nodes \cup {artifact} \cup deps,
     edges |-> H.edges \cup {<<artifact, d>> : d \in deps}]

\* variant: a project whose artifact is already a node is left out
build_step_known_artifact_skipped(H, e) ==
    IF e.artifact # None /\ e.artifact \notin H.nodes
    THEN add_project(H, e.artifact, e.deps) ELSE H

\* variant: the extraction is added without the test of the artifact
build_step_unconditional(H, e) == add_project(H, e.artifact, e.deps)

\* one pass of the for loop of build_dependency_graph over an extraction
build_step(H, e) ==
    IF e.artifact # None THEN add_project(H, e.artifact, e.deps) ELSE H

InitBuild ==
    /\ G = DiGraph
    /\ op = "build_dependency_graph"
    /\ arg = 0
    /\ result = "building"
    /\ flags \in FlagSettings
    /\ pom = None
    /\ extracted = None
    /\ projects = {}
    /\ locals = NoLocals
    /\ files = NoFiles

\* the loop body for the next pom.xml of find_poms_in_dir(directory)
ProcessPom(p) ==
    /\ op = "build_dependency_graph"
    /\ result = "building"
    /\ arg < MaxPoms
    /\ LET e == extract_dependencies(p, flags)
       IN /\ extracted' = e
          /\ IF e.exit = 1
             THEN /\ result' = "exit 1"
                  /\ G' = G
             ELSE /\ result' = result
                  /\ G' = build_step(G, e)
    /\ pom' = p
    /\ arg' = arg + 1
    /\ projects' = projects \cup {p.groupId}
    /\ UNCHANGED <<op, flags, locals, files>>

\* no pom.xml is left: return G
ReturnGraph ==
    /\ op = "build_dependency_graph"
    /\ result = "building"
    /\ result' = "built"
    /\ UNCHANGED <<G, op, arg, flags, pom, extracted, projects, locals, files>>

NextBuild ==
    \/ \E p \in Poms : ProcessPom(p)
    \/ ReturnGraph

SpecBuild == InitBuild /\ [][NextBuild]_vars

----------------------------------------------------------------------------
(* The query run: a graph, then one query on it *)

\* the graphs over NodeIds with at most MaxEdges edges
Graphs ==
    UNION {{[nodes |-> N, edges |-> E] :
                E \in {E \in SUBSET (N \X N) : Cardinality(E) <= MaxEdges}} :
           N \in SUBSET NodeIds}

\* the lists of at most MaxArtifacts identifiers
ArtifactLists == UNION {[1..k -> NodeIds] : k \in 0..MaxArtifacts}

NoFlags == [include_group_id |-> TRUE, included_groups |-> {}, excluded_groups |-> {}]

InitQuery ==
    /\ G \in Graphs
    /\ op = "none"
    /\ arg = None
    /\ result = None
    /\ flags = NoFlags
    /\ pom = None
    /\ extracted = None
    /\ projects = {}
    /\ locals = NoLocals
    /\ files = NoFiles

Dependencies(module) ==
    /\ op = "none"
    /\ op' = "get_transitive_dependencies"
    /\ arg' = module
    /\ result' = get_transitive_dependencies(G, module)
    /\ UNCHANGED <<G, flags, pom, extracted, projects, locals, files>>

Dependents(module) ==
    /\ op = "none"
    /\ op' = "get_transitive_dependents"
    /\ arg' = module
    /\ result' = get_transitive_dependents(G, module)
    /\ UNCHANGED <<G, flags, pom, extracted, projects, locals, files>>

DependenciesTree(module) ==
    /\ op = "none"
    /\ op' = "get_transitive_dependencies_tree"
    /\ arg' = module
    /\ result' = get_transitive_dependencies_tree(G, module)
    /\ UNCHANGED <<G, flags, pom, extracted, projects, locals, files>>

\* variant: the graph itself is reversed instead of a copy
DependentsTree_in_place(module) ==
    /\ op = "none"
    /\ op' = "get_transitive_dependents_tree"
    /\ arg' = module
    /\ result' = get_transitive_dependents_tree(G, module)
    /\ G' = reverse(G)
    /\ UNCHANGED <<flags, pom, extracted, projects, locals, files>>

DependentsTree(module) ==
    /\ op = "none"
    /\ op' = "get_transitive_dependents_tree"
    /\ arg' = module
    /\ result' = get_transitive_dependents_tree(G, module)
    /\ UNCHANGED <<G, flags, pom, extracted, projects, locals, files>>

MinimalSubgraph(artifacts) ==
    /\ op = "none"
    /\ op' = "minimal_subgraph_for_artifacts"
    /\ arg' = artifacts
    /\ result' \in minimal_subgraph_for_artifacts(G, artifacts)
    /\ UNCHANGED <<G, flags, pom, extracted, projects, locals, files>>

AllPathsDependenciesTree(module) ==
    /\ op = "none"
    /\ op' = "get_transitive_dependencies_tree all_paths"
    /\ arg' = module
    /\ result' = get_transitive_dependencies_tree_all_paths(G, module)
    /\ UNCHANGED <<G, flags, pom, extracted, projects, locals, files>>

AllPathsDependentsTree(module) ==
    /\ op = "none"
    /\ op' = "get_transitive_dependents_tree all_paths"
    /\ arg' = module
    /\ result' = get_transitive_dependents_tree_all_paths(G, module)
    /\ UNCHANGED <<G, flags, pom, extracted, projects, locals, files>>

Roots ==
    /\ op = "none"
    /\ op' = "roots"
    /\ arg' = None
    /\ result' = get_module_roots(G)
    /\ UNCHANGED <<G, flags, pom, extracted, projects, locals, files>>

Leaves ==
    /\ op = "none"
    /\ op' = "leaves"
    /\ arg' = None
    /\ result' = get_module_leaves(G)
    /\ UNCHANGED <<G, flags, pom, extracted, projects, locals, files>>

NextQuery ==
    \/ \E module \in NodeIds : Dependencies(module)
    \/ \E module \in NodeIds : Dependents(module)
    \/ \E module \in NodeIds : DependenciesTree(module)
    \/ \E module \in NodeIds : DependentsTree(module)
    \/ \E module \in NodeIds : AllPathsDependenciesTree(module)
    \/ \E module \in NodeIds : AllPathsDependentsTree(module)
    \/ \E artifacts \in ArtifactLists : MinimalSubgraph(artifacts)
    \/ Roots
    \/ Leaves

SpecQuery == InitQuery /\ [][NextQuery]_vars

----------------------------------------------------------------------------
(* Graph notions the properties are stated in, defined without the BFS code *)

RECURSIVE Walk(_, _, _, _)
\* there is a directed walk of exactly k edges from m to n
Walk(H, m, n, k) ==
    IF k = 0 THEN m = n
    ELSE \E x \in H.nodes : <<m, x>> \in H.edges /\ Walk(H, x, n, k - 1)

\* there is a directed path of at least one edge from m to n
HasPath(H, m, n) == \E k \in 1..Cardinality(H.nodes) : Walk(H, m, n, k)

\* n is m or reachable from m
Reaches(H, m, n) == m = n \/ HasPath(H, m, n)

\* the BFS distance from m to a node n that m reaches
Dist(H, m, n) ==
    CHOOSE k \in 0..Cardinality(H.nodes) :
        Walk(H, m, n, k) /\ \A j \in 0..(k - 1) : ~Walk(H, m, n, j)

\* a list of strings is strictly ascending
Ascending(list) == \A i, j \in 1..Len(list) : i < j => StrLt(list[i], list[j])

RECURSIVE TreeKeys(_)
\* the keys of a nested dict at all depths
TreeKeys(t) == DOMAIN t \cup UNION {TreeKeys(t[c]) : c \in DOMAIN t}

RECURSIVE TreePairs(_, _)
\* the <<parent, key>> pairs of the nested dict t whose top-level parent is p
TreePairs(t, p) ==
    {<<p, c>> : c \in DOMAIN t} \cup UNION {TreePairs(t[c], c) : c \in DOMAIN t}

\* the nodes at distance dist(m, n) - 1 that have an edge to n
ShortestParents(H, m, n) ==
    {x \in H.nodes : /\ <<x, n>> \in H.edges
                     /\ Reaches(H, m, x)
                     /\ Dist(H, m, x) = Dist(H, m, n) - 1}

----------------------------------------------------------------------------
(* C1 *)

\* C1: get_transitive_dependencies(G, m), for a node m of G, is a sorted list of
\* exactly the nodes n # m that a directed path leads to from m; m is not in it.
C1_TransitiveDependencies ==
    (op = "get_transitive_dependencies" /\ arg \in G.nodes) =>
        /\ Elems(result) = {n \in G.nodes \ {arg} : HasPath(G, arg, n)}
        /\ Ascending(result)
        /\ arg \notin Elems(result)

\* m lies on a cycle and has two dependencies
C1_Witness ==
    /\ op = "get_transitive_dependencies"
    /\ arg \in G.nodes
    /\ HasPath(G, arg, arg)
    /\ Len(result) >= 2

(* C2 *)

\* C2: in the shortest-path dependencies tree of m, the parent of every key n
\* (m for the top-level keys) is the lexicographically smallest of the nodes
\* at BFS distance dist(m, n) - 1 that have an edge to n.
C2_SmallestShortestParent ==
    (op = "get_transitive_dependencies_tree" /\ arg \in G.nodes) =>
        \A pr \in TreePairs(result, arg) :
            /\ Reaches(G, arg, pr[2])
            /\ pr[1] \in ShortestParents(G, arg, pr[2])
            /\ \A x \in ShortestParents(G, arg, pr[2]) : x = pr[1] \/ StrLt(pr[1], x)

\* a key of the tree has two candidate parents at the same distance
C2_Witness ==
    /\ op = "get_transitive_dependencies_tree"
    /\ arg \in G.nodes
    /\ \E pr \in TreePairs(result, arg) :
          /\ pr[1] # arg
          /\ Cardinality(ShortestParents(G, arg, pr[2])) >= 2

(* C3 *)

\* C3: the keys at all depths of the shortest-path dependencies tree of m are
\* exactly get_transitive_dependencies(G, m), those of the dependents tree are
\* exactly get_transitive_dependents(G, m), and m is never a key of its tree.
C3_TreeKeysAreTransitiveSet ==
    /\ op = "get_transitive_dependencies_tree" =>
          /\ TreeKeys(result) = Elems(get_transitive_dependencies(G, arg))
          /\ arg \notin TreeKeys(result)
    /\ op = "get_transitive_dependents_tree" =>
          /\ TreeKeys(result) = Elems(get_transitive_dependents(G, arg))
          /\ arg \notin TreeKeys(result)

\* a dependents tree two levels deep of a module that lies on a cycle
C3_Witness ==
    /\ op = "get_transitive_dependents_tree"
    /\ HasPath(G, arg, arg)
    /\ \E c \in DOMAIN result : DOMAIN result[c] # {}
    /\ TreeKeys(result) # Elems(get_transitive_dependencies(G, arg))

(* C4 *)

\* C4: get_transitive_dependents(G, m) equals
\* get_transitive_dependencies(reverse(G), m).
C4_DependentsAreReverseDependencies ==
    op = "get_transitive_dependents" =>
        result = get_transitive_dependencies(reverse(G), arg)

\* a module whose dependents differ from its dependencies
C4_Witness ==
    /\ op = "get_transitive_dependents"
    /\ Len(result) >= 2
    /\ result # get_transitive_dependencies(G, arg)

(* C5 *)

\* the request [a, b] for two distinct nodes with a direct edge a -> b
DirectEdgeRequest ==
    /\ op = "minimal_subgraph_for_artifacts"
    /\ Len(arg) = 2
    /\ arg[1] # arg[2]
    /\ <<arg[1], arg[2]>> \in G.edges

\* C5 as stated: for a direct edge a -> b, minimal_subgraph_for_artifacts(G, [a, b])
\* has the nodes a and b and the edge (b, a), and does not have the edge (a, b).
C5_Original ==
    DirectEdgeRequest =>
        /\ result.kind = "graph"
        /\ {arg[1], arg[2]} \subseteq result.H.nodes
        /\ <<arg[2], arg[1]>> \in result.H.edges
        /\ <<arg[1], arg[2]>> \notin result.H.edges

\* C5 amended: for a direct edge a -> b between distinct nodes, the result has
\* the nodes a and b and the inverted edge (b, a); it has the edge (a, b)
\* exactly when G also has the direct edge b -> a.
C5_InvertedDirectEdge ==
    DirectEdgeRequest =>
        /\ result.kind = "graph"
        /\ {arg[1], arg[2]} \subseteq result.H.nodes
        /\ <<arg[2], arg[1]>> \in result.H.edges
        /\ <<arg[1], arg[2]>> \in result.H.edges <=> <<arg[2], arg[1]>> \in G.edges

\* a -> b is an edge and b reaches a only the long way round
C5_Witness ==
    /\ DirectEdgeRequest
    /\ <<arg[2], arg[1]>> \notin G.edges
    /\ HasPath(G, arg[2], arg[1])
    /\ <<arg[2], arg[1]>> \in result.H.edges

(* C6 *)

RECURSIVE SortList(_)
\* a list of strings sorted, repetitions kept
SortList(list) ==
    IF list = << >> THEN << >>
    ELSE LET m == min(Elems(list))
         IN SelectSeq(list, LAMBDA x : x = m) \o SortList(SelectSeq(list, LAMBDA x : x # m))

\* the requested identifiers that are no nodes of G, in request order
MissingRequested == SelectSeq(arg, LAMBDA a : a \notin G.nodes)

MutuallyUnreachable ==
    \A u, v \in Elems(arg) : u # v => ~HasPath(G, u, v)

\* C7: when the requested identifiers are nodes of G and none of them is reachable
\* from another, the call returns (no error) a graph whose nodes are exactly the
\* requested identifiers and that has no edges.
C7_UnreachableGivesBareNodes ==
    (/\ op = "minimal_subgraph_for_artifacts"
     /\ Elems(arg) \subseteq G.nodes
     /\ MutuallyUnreachable) =>
        /\ result.kind = "graph"
        /\ result.H.nodes = Elems(arg)
        /\ result.H.edges = {}

\* two requested nodes that share a dependent and a dependency but have no
\* path between them
C7_Witness ==
    /\ op = "minimal_subgraph_for_artifacts"
    /\ Len(arg) = 2
    /\ arg[1] # arg[2]
    /\ Elems(arg) \subseteq G.nodes
    /\ MutuallyUnreachable
    /\ \E x \in G.nodes : <<x, arg[1]>> \in G.edges /\ <<x, arg[2]>> \in G.edges
    /\ \E y \in G.nodes : <<arg[1], y>> \in G.edges /\ <<arg[2], y>> \in G.edges
    /\ result.kind = "graph"

----------------------------------------------------------------------------
(* Notions for the build properties *)

\* identifier n is group-qualified with group g: it starts with "g:"
HasGroup(n, g) == Len(n) > Len(g) + 1 /\ SubSeq(n, 1, Len(g) + 1) = g \o ":"

\* a descriptor has been processed, so pom and extracted hold records
Processed == op = "build_dependency_graph" /\ arg > 0

\* the identifier a dependency element gets under the display mode
ExpectedId(d) ==
    IF flags.include_group_id /\ d.groupId # None
    THEN d.groupId \o ":" \o d.artifactId
    ELSE d.artifactId

\* group g leaves no trace in the graph or in the last extraction: no node and
\* no edge end has it, a project of it is dropped with all its dependencies,
\* and every extracted dependency comes from an element of another group
NoTraceOf(g) ==
    /\ \A n \in G.nodes : ~HasGroup(n, g)
    /\ \A e \in G.edges : ~HasGroup(e[1], g) /\ ~HasGroup(e[2], g)
    /\ (Processed /\ pom.artifactId # None /\ pom.groupId = g) =>
          extracted.artifact = None /\ extracted.deps = {}
    /\ (Processed /\ pom.artifactId # None) =>
          \A id \in extracted.deps :
              \E d \in pom.deps :
                  d.artifactId # None /\ d.groupId # g /\ id = ExpectedId(d)

(* C8 *)

\* C8: with excluded groups, no node of the built graph is qualified with an
\* excluded group, a project of an excluded group contributes neither its node
\* nor its dependencies, and if every project is of an excluded group the
\* graph is empty.
C8_ExcludedGroupsLeaveNoNode ==
    op = "build_dependency_graph" =>
        /\ \A g \in flags.excluded_groups : NoTraceOf(g)
        /\ (projects \subseteq flags.excluded_groups /\ result # "exit 1") =>
              G = DiGraph

\* a project of the excluded group with a dependency was dropped after
\* another project had put nodes into the graph
C8_Witness ==
    /\ Processed
    /\ result = "built"
    /\ flags.include_group_id
    /\ flags.excluded_groups # {}
    /\ flags.included_groups = {}
    /\ pom.groupId \in flags.excluded_groups
    /\ pom.artifactId # None
    /\ \E d \in pom.deps : d.artifactId # None /\ d.groupId \notin flags.excluded_groups
    /\ extracted.artifact = None
    /\ G.edges # {}

(* C9 *)

\* C9: exclusion takes precedence over inclusion: a group that is both included
\* and excluded contributes no project, no dependency, no node and no edge.
C9_ExcludeBeatsInclude ==
    op = "build_dependency_graph" =>
        \A g \in flags.included_groups \cap flags.excluded_groups : NoTraceOf(g)

\* a project that passes both filters declares a dependency of a group that is
\* both included and excluded, next to one that passes
C9_Witness ==
    /\ Processed
    /\ result = "built"
    /\ flags.include_group_id
    /\ pom.artifactId # None
    /\ extracted.artifact # None
    /\ \E d \in pom.deps :
          /\ d.artifactId # None
          /\ d.groupId \in flags.included_groups \cap flags.excluded_groups
    /\ extracted.deps # {}

(* C10 *)

\* C10: with a non-empty included_groups, every project and every dependency
\* whose group is not included is omitted, so every group-qualified node of the
\* graph has its group in included_groups.
C10_OnlyIncludedGroups ==
    (op = "build_dependency_graph" /\ flags.included_groups # {}) =>
        /\ \A g \in Groups \ flags.included_groups : NoTraceOf(g)
        /\ \A n \in G.nodes :
              (\E g \in Groups : HasGroup(n, g)) =>
                  \E g \in flags.included_groups : HasGroup(n, g)

\* an included project declares a dependency of a group that is not included,
\* next to one that passes; nothing is excluded
C10_Witness ==
    /\ Processed
    /\ result = "built"
    /\ flags.include_group_id
    /\ flags.included_groups # {}
    /\ flags.excluded_groups = {}
    /\ pom.artifactId # None
    /\ pom.groupId \in flags.included_groups
    /\ \E d \in pom.deps :
          d.artifactId # None /\ d.groupId \in Groups \ flags.included_groups
    /\ \E n \in G.nodes : \E g \in flags.included_groups : HasGroup(n, g)
    /\ G.edges # {}

(* The traversals step by step: one loop pass or one call per step *)

TraverseNodeIds == {"a", "b", "c"}

\* the graphs over TraverseNodeIds with at most MaxEdges edges
TraverseGraphs == {g \in Graphs : g.nodes \subseteq TraverseNodeIds}

InitTraverse ==
    /\ G \in TraverseGraphs
    /\ op = "none"
    /\ arg = None
    /\ result = None
    /\ flags = NoFlags
    /\ pom = None
    /\ extracted = None
    /\ projects = {}
    /\ locals = NoLocals
    /\ files = NoFiles

\* get_transitive_dependencies(G, module) up to the first pass of the
\* breadth-first walk of nx.descendants
StartDescendants(module) ==
    /\ op = "none"
    /\ op' = "get_transitive_dependencies"
    /\ arg' = module
    /\ IF module \notin G.nodes
       THEN result' = << >> /\ locals' = NoLocals
       ELSE /\ result' = result
            /\ locals' = [pc |-> "bfs_edges", steps |-> 0, visited |-> {module},
                          frontier |-> {module}, found |-> {}]
    /\ UNCHANGED <<G, flags, pom, extracted, projects, files>>

\* one level of the walk, or the sorted list once the frontier is empty
StepDescendants ==
    /\ locals.pc = "bfs_edges"
    /\ locals.steps < MaxSteps
    /\ IF locals.frontier = {}
       THEN result' = sorted(locals.found) /\ locals' = NoLocals
       ELSE LET new == UNION {successors(G, s) : s \in locals.frontier}
                            \ locals.visited
            IN /\ locals' = [locals EXCEPT !.steps = @ + 1,
                                           !.visited = @ \cup new,
                                           !.frontier = new,
                                           !.found = @ \cup new]
               /\ result' = result
    /\ UNCHANGED <<G, op, arg, flags, pom, extracted, projects, files>>

\* _get_transitive_dependencies_tree_shortest(G, module) up to the while loop
StartShortestTree(module) ==
    /\ op = "none"
    /\ op' = "get_transitive_dependencies_tree"
    /\ arg' = module
    /\ IF module \notin G.nodes
       THEN result' = << >> /\ locals' = NoLocals
       ELSE /\ result' = result
            /\ locals' = [pc |-> "while queue", steps |-> 0,
                          st |-> [distances |-> (module :> 0),
                                  parents_by_dist |-> (module :> << >>),
                                  queue |-> <<module>>]]
    /\ UNCHANGED <<G, flags, pom, extracted, projects, files>>

\* one pass of 'while queue', or the tree once the queue is empty
StepShortestTree ==
    /\ locals.pc = "while queue"
    /\ locals.steps < MaxSteps
    /\ IF locals.st.queue = << >>
       THEN /\ result' = build(tree_children(locals.st, arg), arg)
            /\ locals' = NoLocals
       ELSE LET current == Head(locals.st.queue)
                popped == [locals.st EXCEPT !.queue = Tail(@)]
            IN /\ locals' = [locals EXCEPT
                                !.steps = @ + 1,
                                !.st = scan_successors(popped, current,
                                           locals.st.distances[current],
                                           sorted(successors(G, current)))]
               /\ result' = result
    /\ UNCHANGED <<G, op, arg, flags, pom, extracted, projects, files>>

\* the frame of a call build_all_paths(node, visited) at its for loop
call_build_all_paths(H, node, visited) ==
    [node |-> node, visited |-> visited,
     children |-> sorted(successors(H, node)), result |-> << >>]

\* get_transitive_dependencies_tree(G, module, all_paths=True) up to the
\* first call of build_all_paths
StartAllPaths(module) ==
    /\ op = "none"
    /\ op' = "get_transitive_dependencies_tree all_paths"
    /\ arg' = module
    /\ IF module \notin G.nodes
       THEN result' = << >> /\ locals' = NoLocals
       ELSE /\ result' = result
            /\ locals' = [pc |-> "build_all_paths", steps |-> 0,
                          stack |-> <<call_build_all_paths(G, module, {})>>]
    /\ UNCHANGED <<G, flags, pom, extracted, projects, files>>

\* variant: the test 'child not in visited' is left out
push_child_unvisited_test_dropped(stack, top, child) ==
    Append([stack EXCEPT ![Len(stack)].children = Tail(@)],
           call_build_all_paths(G, child, top.visited \cup {child}))

\* the for loop of the innermost call takes its next child: a call for it if
\* it is not in visited, nothing otherwise
push_child(stack, top, child) ==
    IF child \notin top.visited
    THEN Append([stack EXCEPT ![Len(stack)].children = Tail(@)],
                call_build_all_paths(G, child, top.visited \cup {child}))
    ELSE [stack EXCEPT ![Len(stack)].children = Tail(@)]

\* one pass of the for loop of the innermost call, or its return
StepAllPaths ==
    /\ locals.pc = "build_all_paths"
    /\ locals.steps < MaxSteps
    /\ LET stack == locals.stack
           top == stack[Len(stack)]
       IN IF top.children # << >>
          THEN /\ locals' = [locals EXCEPT
                                !.steps = @ + 1,
                                !.stack = push_child(stack, top, Head(top.children))]
               /\ result' = result
          ELSE IF Len(stack) = 1
          THEN result' = top.result /\ locals' = NoLocals
          ELSE /\ locals' = [locals EXCEPT
                                !.steps = @ + 1,
                                !.stack = [SubSeq(stack, 1, Len(stack) - 1)
                                             EXCEPT ![Len(stack) - 1].result =
                                                 (top.node :> top.result) @@ @]]
               /\ result' = result
    /\ UNCHANGED <<G, op, arg, flags, pom, extracted, projects, files>>

NextTraverse ==
    \/ \E module \in TraverseNodeIds : StartDescendants(module)
    \/ StepDescendants
    \/ \E module \in TraverseNodeIds : StartShortestTree(module)
    \/ StepShortestTree
    \/ \E module \in TraverseNodeIds : StartAllPaths(module)
    \/ StepAllPaths

SpecTraverse == InitTraverse /\ [][NextTraverse]_vars

\* the operation under way and its local variables; every step changes them
control == <<op, locals>>

\* a call that has started keeps running: the interpreter takes every step
FairSpecTraverse == SpecTraverse /\ WF_control(NextTraverse)

\* a traversal has returned
Returned == op # "none" /\ locals.pc = "idle"

RECURSIVE lstrip(_)
\* str.lstrip(): leading blanks removed
lstrip(s) ==
    IF s = "" THEN ""
    ELSE IF SubSeq(s, 1, 1) = " " THEN lstrip(SubSeq(s, 2, Len(s)))
    ELSE s

RECURSIVE rstrip(_)
\* str.rstrip(): trailing blanks removed
rstrip(s) ==
    IF s = "" THEN ""
    ELSE IF SubSeq(s, Len(s), Len(s)) = " " THEN rstrip(SubSeq(s, 1, Len(s) - 1))
    ELSE s

\* str.strip()
strip(s) == rstrip(lstrip(s))

RECURSIVE split(_, _, _)
\* s.split(sep) for a one-character sep; cur is the piece read so far
split(s, sep, cur) ==
    IF s = "" THEN <<cur>>
    ELSE IF SubSeq(s, 1, 1) = sep
    THEN <<cur>> \o split(SubSeq(s, 2, Len(s)), sep, "")
    ELSE split(SubSeq(s, 2, Len(s)), sep, cur \o SubSeq(s, 1, 1))

\* [a.strip() for a in args.sub_graph.split(',') if a.strip()]
sub_graph_artifacts(sub_graph) ==
    LET pieces == split(sub_graph, ",", "")
        stripped == [i \in 1..Len(pieces) |-> strip(pieces[i])]
    IN SelectSeq(stripped, LAMBDA a : a # "")

Digits == <<"0", "1", "2", "3", "4", "5", "6", "7", "8", "9">>

RECURSIVE str(_)
\* the decimal text of a natural number
str(n) == IF n < 10 THEN Digits[n + 1] ELSE str(n \div 10) \o Digits[(n % 10) + 1]

\* print(f"Built dependency graph with ... nodes and ... edges.")
built_message(H) ==
    [writer |-> "print",
     data |-> "Built dependency graph with " \o str(Cardinality(H.nodes))
              \o " nodes and " \o str(Cardinality(H.edges)) \o " edges."]

\* the text an output function makes of a value; only its kind is kept
formatted(writer, data) == [writer |-> writer, data |-> data]

\* a process that is still running: nothing printed, nothing written
Started == [exit |-> None, stdout |-> << >>, stderr |-> << >>, outfile |-> None]

\* print(..., file=sys.stderr); sys.exit(1)
error_exit(proc, message) ==
    [proc EXCEPT !.exit = 1,
                 !.stderr = Append(@, [writer |-> "print", data |-> message])]

\* the end of main: the output goes to the file and a note to stdout, or the
\* output goes to stdout
write_output(proc, a, output) ==
    IF a.outfile # None
    THEN [proc EXCEPT !.exit = 0,
                      !.outfile = output,
                      !.stdout = Append(@, [writer |-> "print",
                                            data |-> "Wrote output to " \o a.outfile])]
    ELSE [proc EXCEPT !.exit = 0, !.stdout = Append(@, output)]

\* json.dumps(nodes, indent=2) or "\n".join(nodes) for --roots and --leaves
list_output(a, nodes) ==
    IF a.format = "json" THEN formatted("json.dumps", nodes)
    ELSE formatted("print", join("\n", nodes))

\* generate_plant_uml(H) or generate_json(H) for --sub-graph
sub_graph_output(a, H) ==
    IF a.format = "plantuml" THEN formatted("generate_plant_uml", H)
    ELSE formatted("generate_json", H)

\* the whole graph: plantuml, json, or the empty string for flat
graph_output(a, H) ==
    IF a.format = "plantuml" THEN formatted("generate_plant_uml", H)
    ELSE IF a.format = "json" THEN formatted("generate_json", H)
    ELSE formatted("print", "")

\* variant: the test of the module is left out
module_in_graph_unchecked(H, module) == TRUE

\* args.dependencies in G.nodes, args.dependents in G.nodes
module_in_graph(H, module) == module \in H.nodes

\* the outcomes of main() once the graph H is built, for the arguments a
main(H, a) ==
    LET proc == [Started EXCEPT !.stdout = <<built_message(H)>>]
    IN IF a.sub_graph # None /\ a.sub_graph # ""
       THEN {IF r.kind = "ValueError"
             THEN error_exit(proc, "Error: " \o r.message)
             ELSE write_output(proc, a, sub_graph_output(a, r.H)) :
                r \in minimal_subgraph_for_artifacts(H, sub_graph_artifacts(a.sub_graph))}
       ELSE IF a.roots
       THEN {write_output(proc, a, list_output(a, get_module_roots(H)))}
       ELSE IF a.leaves
       THEN {write_output(proc, a, list_output(a, get_module_leaves(H)))}
       ELSE IF a.dependencies # None /\ a.dependencies # ""
       THEN IF ~module_in_graph(H, a.dependencies)
            THEN {error_exit(proc, "Error: Module '" \o a.dependencies
                                    \o "' not found in the graph.")}
            ELSE IF a.format = "flat"
            THEN {write_output(proc, a, formatted("print",
                      join("\n", get_transitive_dependencies(H, a.dependencies))))}
            ELSE {write_output(proc, a, formatted("json.dumps",
                      IF a.all_paths
                      THEN get_transitive_dependencies_tree_all_paths(H, a.dependencies)
                      ELSE get_transitive_dependencies_tree(H, a.dependencies)))}
       ELSE IF a.dependents # None /\ a.dependents # ""
       THEN IF ~module_in_graph(H, a.dependents)
            THEN {error_exit(proc, "Error: Module '" \o a.dependents
                                    \o "' not found in the graph.")}
            ELSE IF a.format = "flat"
            THEN {write_output(proc, a, formatted("print",
                      join("\n", get_transitive_dependents(H, a.dependents))))}
            ELSE {write_output(proc, a, formatted("json.dumps",
                      IF a.all_paths
                      THEN get_transitive_dependents_tree_all_paths(H, a.dependents)
                      ELSE get_transitive_dependents_tree(H, a.dependents)))}
       ELSE {write_output(proc, a, graph_output(a, H))}

\* the values of --sub-graph, and of --dependencies and --dependents
SubGraphLists == {"a", "a,b", " c , a", ","}
Modules == {"a", "b", "c"}

\* the mode options; argparse admits at most one of them
NoMode ==
    [sub_graph |-> None, roots |-> FALSE, leaves |-> FALSE,
     dependencies |-> None, dependents |-> None]

Modes ==
    {NoMode, [NoMode EXCEPT !.roots = TRUE], [NoMode EXCEPT !.leaves = TRUE]}
    \cup {[NoMode EXCEPT !.sub_graph = s] : s \in SubGraphLists}
    \cup {[NoMode EXCEPT !.dependencies = m] : m \in Modules}
    \cup {[NoMode EXCEPT !.dependents = m] : m \in Modules}

\* the namespaces parse_args() can return, without the build options
Namespaces ==
    {[sub_graph |-> m.sub_graph, roots |-> m.roots, leaves |-> m.leaves,
      dependencies |-> m.dependencies, dependents |-> m.dependents,
      format |-> f, all_paths |-> ap, outfile |-> o] :
        m \in Modes, f \in {"json", "flat", "plantuml"}, ap \in BOOLEAN,
        o \in {None, "out.txt"}}

\* build_dependency_graph has returned the graph
InitMain ==
    /\ G \in TraverseGraphs
    /\ op = "none"
    /\ arg = None
    /\ result = Started
    /\ flags = NoFlags
    /\ pom = None
    /\ extracted = None
    /\ projects = {}
    /\ locals = NoLocals
    /\ files = NoFiles

Main(a) ==
    /\ op = "none"
    /\ op' = "main"
    /\ arg' = a
    /\ result' \in main(G, a)
    /\ UNCHANGED <<G, flags, pom, extracted, projects, locals, files>>

NextMain == \E a \in Namespaces : Main(a)

SpecMain == InitMain /\ [][NextMain]_vars

\* the run met a fatal condition: the module of --dependencies or
\* --dependents is not a node, or an identifier of --sub-graph is not a node
FatalCondition ==
    /\ op = "main"
    /\ \/ arg.dependencies \in Modules \ G.nodes
       \/ arg.dependents \in Modules \ G.nodes
       \/ /\ arg.sub_graph # None
          /\ \E n \in Modules \ G.nodes :
                \E i \in 1..Len(arg.sub_graph) : SubSeq(arg.sub_graph, i, i) = n

\* C16 as stated: on a fatal condition the exit status is 1 and nothing has
\* been written to standard output or to the output file.
C16_Original ==
    FatalCondition =>
        /\ result.exit = 1
        /\ result.stdout = << >>
        /\ result.outfile = None

\* C16: on a fatal condition the exit status is 1, one message is on the
\* error stream, the output file is not written, and standard output holds
\* the line about the built graph and nothing else.
C16_FatalExitWritesNoOutput ==
    FatalCondition =>
        /\ result.exit = 1
        /\ Len(result.stderr) = 1
        /\ result.outfile = None
        /\ result.stdout = <<built_message(G)>>

\* --dependents with an output file for a module that is not in a graph with
\* edges
C16_Witness ==
    /\ FatalCondition
    /\ arg.dependents # None
    /\ arg.outfile # None
    /\ G.edges # {}
    /\ result.exit = 1

(* The log scan of evaluate_mvn_build.py *)

\* sub in s
Contains(s, sub) ==
    \E i \in 1..(Len(s) - Len(sub) + 1) : SubSeq(s, i, i + Len(sub) - 1) = sub

\* s.startswith(prefix)
startswith(s, prefix) ==
    Len(s) >= Len(prefix) /\ SubSeq(s, 1, Len(prefix)) = prefix

stop_msg ==
    "[ERROR] To see the full stack trace of the errors, re-run Maven with the -e switch."

help_msg == "[ERROR] -> [Help 1]"

\* variant: the block is cut after the hint line instead of before it
trim_error_block_after_hint(block) ==
    LET hits == {idx \in 1..Len(block) :
                    Contains(block[idx], stop_msg) \/ Contains(block[idx], help_msg)}
    IN IF hits = {} THEN block
       ELSE SubSeq(block, 1, CHOOSE idx \in hits : \A other \in hits : idx <= other)

\* _trim_error_block(block): the lines before the first one that holds the
\* stack-trace hint or the help marker
trim_error_block(block) ==
    LET hits == {idx \in 1..Len(block) :
                    Contains(block[idx], stop_msg) \/ Contains(block[idx], help_msg)}
    IN IF hits = {} THEN block
       ELSE SubSeq(block, 1, (CHOOSE idx \in hits : \A other \in hits : idx <= other) - 1)

\* \d
Digit == {"0", "1", "2", "3", "4", "5", "6", "7", "8", "9"}

\* \d{4}-\d{2}-\d{2}[ T]
DatePattern ==
    <<Digit, Digit, Digit, Digit, {"-"}, Digit, Digit, {"-"}, Digit, Digit, {" ", "T"}>>

\* \d{2}:\d{2}:\d{2}[.,]\d{3}
TimePattern ==
    <<Digit, Digit, {":"}, Digit, Digit, {":"}, Digit, Digit, {".", ","},
      Digit, Digit, Digit>>

\* the characters of s from position start on match the pattern one by one
matches(s, start, pattern) ==
    /\ Len(s) >= start + Len(pattern) - 1
    /\ \A k \in 1..Len(pattern) : SubSeq(s, start + k - 1, start + k - 1) \in pattern[k]

\* s from position start on, when a time, then blanks, then [ERROR] are there;
\* s otherwise
sub_time(s, start) ==
    IF ~matches(s, start, TimePattern) THEN s
    ELSE LET rest == SubSeq(s, start + Len(TimePattern), Len(s))
             tag == lstrip(rest)
         IN IF Len(tag) < Len(rest) /\ startswith(tag, "[ERROR]") THEN tag ELSE s

\* re.sub(r'^(?:\d{4}-\d{2}-\d{2}[ T])?\d{2}:\d{2}:\d{2}[.,]\d{3}\s+(?=\[ERROR])', '', s)
sub_timestamp(s) ==
    IF matches(s, 1, DatePattern) /\ sub_time(s, Len(DatePattern) + 1) # s
    THEN sub_time(s, Len(DatePattern) + 1)
    ELSE sub_time(s, 1)

\* a byte line that is not valid UTF-8
InvalidUtf8 == "<invalid utf-8>"

\* stands for the point of a file at which open or the read raises
ReadError == "<OSError>"

\* ('[ERROR]' in line) or line.lstrip().startswith('ERROR')
is_error_line(line) == Contains(line, "[ERROR]") \/ startswith(lstrip(line), "ERROR")

\* the state before the first line
NoLines ==
    [detected_success |-> FALSE, detected_failure |-> FALSE,
     file_error_class |-> None, last_error_block |-> << >>,
     current_error_block |-> << >>, unreadable |-> FALSE]

\* variant: a line that does not decode ends the current error block
process_line_undecodable_ends_block(st, byte_line) ==
    IF byte_line = InvalidUtf8
    THEN IF st.current_error_block # << >>
         THEN [st EXCEPT !.last_error_block = st.current_error_block,
                         !.current_error_block = << >>]
         ELSE st
    ELSE LET line == byte_line
             flagged ==
                 [st EXCEPT
                    !.detected_success = @ \/ Contains(line, "BUILD SUCCESS"),
                    !.detected_failure = @ \/ Contains(line, "BUILD FAILURE"),
                    !.file_error_class =
                        IF @ = None /\ Contains(line, "Could not resolve dependencies")
                        THEN "Dependency Resolution"
                        ELSE IF @ = None /\ Contains(line, "Compilation failure")
                        THEN "Compilation Failure"
                        ELSE @]
         IN IF is_error_line(line)
            THEN [flagged EXCEPT
                    !.current_error_block = Append(@, sub_timestamp(strip(line)))]
            ELSE IF flagged.current_error_block # << >>
            THEN [flagged EXCEPT !.last_error_block = flagged.current_error_block,
                                 !.current_error_block = << >>]
            ELSE flagged

\* the body of 'for byte_line in f' for one line
process_line(st, byte_line) ==
    IF byte_line = InvalidUtf8 THEN st
    ELSE LET line == byte_line
             flagged ==
                 [st EXCEPT
                    !.detected_success = @ \/ Contains(line, "BUILD SUCCESS"),
                    !.detected_failure = @ \/ Contains(line, "BUILD FAILURE"),
                    !.file_error_class =
                        IF @ = None /\ Contains(line, "Could not resolve dependencies")
                        THEN "Dependency Resolution"
                        ELSE IF @ = None /\ Contains(line, "Compilation failure")
                        THEN "Compilation Failure"
                        ELSE @]
         IN IF is_error_line(line)
            THEN [flagged EXCEPT
                    !.current_error_block = Append(@, sub_timestamp(strip(line)))]
            ELSE IF flagged.current_error_block # << >>
            THEN [flagged EXCEPT !.last_error_block = flagged.current_error_block,
                                 !.current_error_block = << >>]
            ELSE flagged

RECURSIVE process_lines(_, _)
\* the for loop over the lines of the file, inside 'try'; an exception ends
\* it with unreadable = True
process_lines(st, lines) ==
    IF lines = << >> THEN st
    ELSE IF Head(lines) = ReadError THEN [st EXCEPT !.unreadable = TRUE]
    ELSE process_lines(process_line(st, Head(lines)), Tail(lines))

\* _process_log_file(log_file) for a file that holds the given lines
process_log_file(lines) ==
    LET st == process_lines(NoLines, lines)
        last_error_block ==
            IF st.current_error_block # << >> THEN st.current_error_block
            ELSE st.last_error_block
    IN [detected_success |-> st.detected_success,
        detected_failure |-> st.detected_failure,
        file_error_class |-> st.file_error_class,
        last_error_block |-> IF last_error_block # << >>
                             THEN trim_error_block(last_error_block) ELSE << >>,
        unreadable |-> st.unreadable]

\* the lines a log file is made of
LogLines ==
    {"[INFO] ok",
     "[INFO] BUILD SUCCESS",
     "[INFO] BUILD FAILURE",
     "[ERROR] Compilation failure",
     "  ERROR x  ",
     "20:52:13,597  [ERROR] y",
     help_msg,
     " " \o stop_msg,
     InvalidUtf8}

\* a log file of at most MaxLines lines is there to be read
InitLog ==
    /\ G = DiGraph
    /\ op = "none"
    /\ arg \in UNION {[1..k -> LogLines] : k \in 0..MaxLines}
    /\ result = None
    /\ flags = NoFlags
    /\ pom = None
    /\ extracted = None
    /\ projects = {}
    /\ locals = NoLocals
    /\ files = NoFiles

ProcessLogFile ==
    /\ op = "none"
    /\ op' = "_process_log_file"
    /\ result' = process_log_file(arg)
    /\ UNCHANGED <<G, arg, flags, pom, extracted, projects, locals, files>>

NextLog == ProcessLogFile

SpecLog == InitLog /\ [][NextLog]_vars

\* the lines of a log that decode, in file order
Decoded(lines) == SelectSeq(lines, LAMBDA l : l # InvalidUtf8)

\* an error line by the definition of the claim
ErrorLine(l) ==
    \/ \E i \in 1..(Len(l) - 6) : SubSeq(l, i, i + 6) = "[ERROR]"
    \/ \E i \in 1..(Len(l) - 4) :
          /\ SubSeq(l, i, i + 4) = "ERROR"
          /\ \A j \in 1..(i - 1) : SubSeq(l, j, j) = " "

RECURSIVE ErrorFlags(_)
\* for every line of text, whether it is an error line
ErrorFlags(text) ==
    IF text = << >> THEN << >>
    ELSE <<ErrorLine(Head(text))>> \o ErrorFlags(Tail(text))

\* the positions of the last maximal run of consecutive error lines of text
LastRun(text) ==
    LET err == ErrorFlags(text)
    IN {i \in 1..Len(text) :
          /\ err[i]
          /\ \A k \in i..Len(text) : err[k] => \A j \in i..k : err[j]}

\* a line holds the stack-trace hint or the help marker
HintLine(l) == Contains(l, stop_msg) \/ Contains(l, help_msg)

RECURSIVE HintFlags(_)
\* for every line of text, whether it is a hint line
HintFlags(text) ==
    IF text = << >> THEN << >>
    ELSE <<HintLine(Head(text))>> \o HintFlags(Tail(text))

\* the positions of the last run before its first hint line
CutRun(text) ==
    LET run == LastRun(text)
        hint == HintFlags(text)
    IN {i \in run : \A j \in run : j <= i => ~hint[j]}

\* the lines of text at the positions of S, in file order, as they are stored
\* (blanks at both ends and a leading timestamp removed)
StoredLines(text, S) ==
    LET picked == SelectSeq([i \in 1..Len(text) |-> IF i \in S THEN text[i] ELSE ""],
                            LAMBDA l : l # "")
    IN [i \in 1..Len(picked) |-> sub_timestamp(strip(picked[i]))]

\* C19: the error block of a log is the last maximal run of consecutive error
\* lines (of the lines that decode), cut at the first line of that run that
\* holds the stack-trace hint or the help marker; earlier runs are never part
\* of it.
C19_ErrorBlockIsLastRun ==
    op = "_process_log_file" =>
        LET text == Decoded(arg)
        IN /\ result.last_error_block = StoredLines(text, CutRun(text))
           /\ Len(result.last_error_block) <= Cardinality(LastRun(text))

\* a log with an earlier error run, and a last run of which the hint cuts off
\* a part and leaves a part
C19_Witness ==
    /\ op = "_process_log_file"
    /\ result.last_error_block # << >>
    /\ LET text == Decoded(arg)
       IN /\ \E i \in 1..Len(text) : ErrorLine(text[i]) /\ i \notin LastRun(text)
          /\ CutRun(text) # LastRun(text)
          /\ CutRun(text) # {}

(* Removal of dependencies: mod_deps.py and pom_utils.py *)

\* the artifactId texts of a POM and of the --delete option
ArtifactNames == {"a", "b", "c"}

\* a POM tree: the artifactId of the project, and the artifactId of each
\* <dependency> of its <dependencies> containers in document order (None for
\* a dependency without artifactId)
PomTrees ==
    [artifactId : ArtifactNames \cup {None},
     dependencies : UNION {[1..k -> ArtifactNames \cup {None}] : k \in 0..MaxDeps}]

\* pom_utils.find_artifactids(root): the artifactId texts of the dependencies
find_artifactids(root) == Elems(root.dependencies) \ {None}

\* mod_deps.find_artifactids(root): the texts of all artifactId elements of
\* the tree, the project's own among them
find_artifactids_mod_deps(root) ==
    ({root.artifactId} \cup Elems(root.dependencies)) \ {None}

\* remove_dependencies(root, artifact_names): the tree without the matching
\* dependencies, and their number
remove_dependencies(root, artifact_names) ==
    LET kept == SelectSeq(root.dependencies, LAMBDA art : art \notin artifact_names)
    IN [root |-> [root EXCEPT !.dependencies = kept],
        removed |-> Len(root.dependencies) - Len(kept)]

\* the message about the missing artifactIds
not_found_message(missing) ==
    "Error: specified artifactIds not found in POM: " \o join(", ", sorted(missing))

\* mod_deps.handle_remove_deps(pom_root, requested): the process and the tree
\* after the call
handle_remove_deps(pom_root, requested) ==
    LET present == find_artifactids_mod_deps(pom_root)
        missing == requested \ present
    IN IF missing # {}
       THEN [proc |-> error_exit(Started, not_found_message(missing)),
             root |-> pom_root]
       ELSE LET r == remove_dependencies(pom_root, requested)
            IN [proc |-> [Started EXCEPT !.stdout =
                            <<[writer |-> "print",
                               data |-> "Removed " \o str(r.removed)
                                        \o " matching dependencies"]>>],
                root |-> r.root]

\* pom_utils.verify_artifactids_arguments(pom_root, requested)
verify_artifactids_arguments(pom_root, requested) ==
    LET present == find_artifactids(pom_root)
        missing == requested \ present
    IN IF missing # {}
       THEN [proc |-> error_exit(Started, not_found_message(missing)),
             root |-> pom_root]
       ELSE [proc |-> Started, root |-> pom_root]

\* read_pom(pom_path) has returned the tree
InitRemove ==
    /\ G = DiGraph
    /\ op = "none"
    /\ arg = None
    /\ result = Started
    /\ flags = NoFlags
    /\ pom \in PomTrees
    /\ extracted = None
    /\ projects = {}
    /\ locals = NoLocals
    /\ files = NoFiles

HandleRemoveDeps(requested) ==
    /\ op = "none"
    /\ op' = "handle_remove_deps"
    /\ arg' = requested
    /\ LET r == handle_remove_deps(pom, requested)
       IN result' = r.proc /\ pom' = r.root
    /\ UNCHANGED <<G, flags, extracted, projects, locals, files>>

VerifyArtifactidsArguments(requested) ==
    /\ op = "none"
    /\ op' = "verify_artifactids_arguments"
    /\ arg' = requested
    /\ LET r == verify_artifactids_arguments(pom, requested)
       IN result' = r.proc /\ pom' = r.root
    /\ UNCHANGED <<G, flags, extracted, projects, locals, files>>

NextRemove ==
    \/ \E requested \in (SUBSET ArtifactNames) \ {{}} : HandleRemoveDeps(requested)
    \/ \E requested \in (SUBSET ArtifactNames) \ {{}} :
          VerifyArtifactidsArguments(requested)

SpecRemove == InitRemove /\ [][NextRemove]_vars

\* the requested artifactIds that no dependency of the tree has
NotADependency(root, requested) ==
    {x \in requested :
        \A i \in 1..Len(root.dependencies) : root.dependencies[i] # x}

\* the process has ended with the given exit status
ExitedWith(proc, status) == proc.exit # None /\ proc.exit = status

\* C20: when a requested artifactId is not a dependency of the POM,
\* handle_remove_deps exits with status 1, the message lists the missing
\* artifactIds sorted and comma-joined, and the tree is left as it was.
C20_MissingDependencyLeavesPomUnmodified ==
    [][(op' = "handle_remove_deps" /\ NotADependency(pom, arg') # {}) =>
          /\ ExitedWith(result', 1)
          /\ result'.stderr =
                <<[writer |-> "print",
                   data |-> not_found_message(NotADependency(pom, arg'))]>>
          /\ pom' = pom]_vars

\* the nodes without an incoming edge, by the edge set alone
NoIncoming(H) == {n \in H.nodes : \A e \in H.edges : e[2] # n}

\* the nodes without an outgoing edge, by the edge set alone
NoOutgoing(H) == {n \in H.nodes : \A e \in H.edges : e[1] # n}

ModuleQueries ==
    {"get_transitive_dependencies", "get_transitive_dependents",
     "get_transitive_dependencies_tree", "get_transitive_dependents_tree",
     "get_transitive_dependencies_tree all_paths",
     "get_transitive_dependents_tree all_paths"}

\* C13: for a module that is not a node of the graph, the two list queries
\* return the empty list and the tree queries the empty mapping; no error is
\* raised.
C13_AbsentModuleGivesEmpty ==
    (op \in ModuleQueries /\ arg \notin G.nodes) => result = << >>

\* a query for a module that is absent from a graph that has edges
C13_Witness ==
    /\ op = "get_transitive_dependencies"
    /\ arg \notin G.nodes
    /\ G.edges # {}
    /\ result = << >>

RECURSIVE ChainsRepeatFree(_, _)
\* no chain of nested keys of t holds an identifier of onpath or holds one twice
ChainsRepeatFree(t, onpath) ==
    \A c \in DOMAIN t : c \notin onpath /\ ChainsRepeatFree(t[c], onpath \cup {c})

\* C17: in an all-paths tree for m, no identifier occurs twice along any chain
\* of nested keys counted from m itself, so m is never a key of its own tree.
C17_NoRepeatOnChains ==
    op \in {"get_transitive_dependencies_tree all_paths",
            "get_transitive_dependents_tree all_paths"} =>
        /\ ChainsRepeatFree(result, {arg})
        /\ arg \notin TreeKeys(result)

\* C18: no query changes the node set or the edge set of the graph it is
\* given; the dependents queries read a reversed copy.
C18_QueriesLeaveGraphUnchanged ==
    [][G'.nodes = G.nodes /\ G'.edges = G.edges]_vars

\* a dependents tree has been computed on a graph that differs from its
\* reversal
C18_Witness ==
    /\ op = "get_transitive_dependents_tree"
    /\ reverse(G) # G
    /\ result # << >>
    /\ result = get_transitive_dependencies_tree(reverse(G), arg)

\* C14: a descriptor without artifactId ends build_dependency_graph with exit
\* status 1 at that descriptor, whatever the filters are and however many
\* descriptors came before; the graph is left as it was, nothing more is
\* processed and no graph is returned.
C14_MissingArtifactIdExits ==
    /\ (Processed /\ pom.artifactId = None) =>
          /\ result = "exit 1"
          /\ extracted.exit = 1
    /\ (op = "build_dependency_graph" /\ result = "exit 1") =>
          ~ENABLED NextBuild

\* the second descriptor has no artifactId and a group that the filters would
\* drop; the first one was added to the graph
C14_Witness ==
    /\ Processed
    /\ arg = 2
    /\ pom.artifactId = None
    /\ pom.groupId \in flags.excluded_groups
    /\ G.nodes # {}
    /\ result = "exit 1"

\* a group passes the filters
Passes(g) ==
    /\ g \notin flags.excluded_groups
    /\ flags.included_groups = {} \/ g \in flags.included_groups

\* the dependency elements of p that have an artifactId and pass the filters
PassingDeps(p) ==
    {d \in p.deps : d.artifactId # None /\ (d.groupId = None \/ Passes(d.groupId))}

\* the descriptor p is a project that passes the filters
PassingProject(p) ==
    p.artifactId # None /\ (p.groupId = None \/ Passes(p.groupId))

\* the nodes a descriptor contributes
ContributedNodes(p) ==
    IF PassingProject(p)
    THEN {ExpectedId(p)} \cup {ExpectedId(d) : d \in PassingDeps(p)}
    ELSE {}

\* the edges a descriptor contributes
ContributedEdges(p) ==
    IF PassingProject(p)
    THEN {<<ExpectedId(p), ExpectedId(d)>> : d \in PassingDeps(p)}
    ELSE {}

\* both ends of every edge are nodes
EndpointsAreNodes == \A e \in G.edges : e[1] \in G.nodes /\ e[2] \in G.nodes

\* C15: after every construction step both ends of every edge are nodes, and
\* every step adds exactly the identifiers and edges of the descriptor it
\* processed when that project passes the filters (the project, and each
\* declared dependency that passes), and nothing when it does not; the graph
\* starts empty, so the final node set is the union of these.
C15_GraphIsUnionOfPassingProjects ==
    /\ [](op = "build_dependency_graph" => EndpointsAreNodes)
    /\ [][op = "build_dependency_graph" =>
            IF arg' = arg + 1
            THEN /\ G'.nodes = G.nodes \cup ContributedNodes(pom')
                 /\ G'.edges = G.edges \cup ContributedEdges(pom')
            ELSE G' = G]_vars

\* the last of two descriptors was filtered out and the graph returned holds
\* the project and a dependency of the first
C15_Witness ==
    /\ Processed
    /\ result = "built"
    /\ arg = 2
    /\ pom.artifactId # None
    /\ ~PassingProject(pom)
    /\ pom.deps # {}
    /\ G.edges # {}
    /\ EndpointsAreNodes

----------------------------------------------------------------------------
(* The parent version rewrite of mod_parent.py *)

\* the directories a pom.xml can be in
Dirs == <<"a", "b", "c", "d">>

\* pom.with_suffix('.xml.bak'): the text from the last dot on is replaced
with_suffix(path, suffix) ==
    LET dots == {i \in 1..Len(path) : SubSeq(path, i, i) = "."}
        last == CHOOSE i \in dots : \A j \in dots : j <= i
    IN SubSeq(path, 1, last - 1) \o suffix

\* the name of the file of a path is pom.xml
is_pom_xml(path) ==
    /\ Len(path) > Len("/pom.xml")
    /\ SubSeq(path, Len(path) - Len("/pom.xml") + 1, Len(path)) = "/pom.xml"

\* find_poms(root): sorted(root.rglob("pom.xml"))
find_poms(fs) == sorted({path \in DOMAIN fs : is_pom_xml(path)})

\* a file that is no XML
Malformed == [wellformed |-> FALSE, has_parent |-> FALSE, artifactId |-> None, version |-> None]

\* the contents of a pom.xml: no XML, a POM without <parent>, and the POMs
\* with the texts of the parent's artifactId and version (None for a missing
\* element)
PomContents ==
    {Malformed,
     [wellformed |-> TRUE, has_parent |-> FALSE, artifactId |-> None, version |-> None]}
    \cup [wellformed : {TRUE}, has_parent : {TRUE},
          artifactId : {None, " p", "q"}, version : {None, "1", " 2 "}]

\* a backup left by an earlier run
StaleBackup == [wellformed |-> TRUE, has_parent |-> TRUE, artifactId |-> "q", version |-> "0"]

\* the trees under the root directory: each directory has no pom.xml, or a
\* pom.xml, or a pom.xml and an old pom.xml.bak
DirTrees(dir) ==
    LET path == dir \o "/pom.xml"
    IN {<< >>}
       \cup {(path :> c) : c \in PomContents}
       \cup {(path :> c) @@ (with_suffix(path, ".xml.bak") :> StaleBackup) :
                c \in PomContents}

RECURSIVE Trees(_)
\* the trees over the first n directories
Trees(n) ==
    IF n = 0 THEN {<< >>}
    ELSE {t @@ d : t \in Trees(n - 1), d \in DirTrees(Dirs[n])}

\* the new_version, write and parent_artifact_ids arguments
ParentArgs ==
    [new_version : {"1", "2"}, write : BOOLEAN,
     parent_artifact_ids : {[given |-> FALSE, ids |-> {}], [given |-> TRUE, ids |-> {"p"}]}]

\* update_parent_version_in_pom(pom_path, new_version, parent_artifact_ids):
\* an exception of the parser, or (old_version, xml_text); has_text tells
\* that xml_text is not None
update_parent_version_in_pom(content, new_version, parent_artifact_ids) ==
    LET nothing == [raised |-> FALSE, old_version |-> None, has_text |-> FALSE,
                    xml_text |-> content]
    IN IF ~content.wellformed THEN [nothing EXCEPT !.raised = TRUE]
       ELSE IF ~content.has_parent THEN nothing
       ELSE IF /\ parent_artifact_ids.given
               /\ \/ content.artifactId = None
                  \/ strip(content.artifactId) \notin parent_artifact_ids.ids
       THEN nothing
       ELSE IF content.version = None THEN nothing
       ELSE LET old_version == strip(content.version)
            IN IF old_version = new_version
               THEN [nothing EXCEPT !.old_version = old_version]
               ELSE [raised |-> FALSE, old_version |-> old_version, has_text |-> TRUE,
                     xml_text |-> [content EXCEPT !.version = new_version]]

\* the files are there, nothing runs
InitParent ==
    /\ G = DiGraph
    /\ op = "none"
    /\ arg = None
    /\ result = None
    /\ flags = NoFlags
    /\ pom = None
    /\ extracted = None
    /\ projects = {}
    /\ locals = NoLocals
    /\ files \in Trees(MaxPoms)

\* process_poms_under(root_dir, new_version, write, parent_artifact_ids) up to
\* the for loop; arg keeps the arguments and the tree as it was at the call
CallProcessPomsUnder(a) ==
    /\ op = "none"
    /\ op' = "process_poms_under"
    /\ arg' = [new_version |-> a.new_version, write |-> a.write,
               parent_artifact_ids |-> a.parent_artifact_ids, root_dir |-> files]
    /\ locals' = [pc |-> "for pom", poms |-> find_poms(files), changed |-> << >>,
                  old_version |-> None, xml_text |-> Malformed]
    /\ UNCHANGED <<G, result, flags, pom, extracted, projects, files>>

\* variant: the helper result is written whatever the write flag says
wants_write_always(write) == TRUE

\* if write:
wants_write(write) == write

\* one pass of the for loop up to 'if write', or the return of the list
NextPom ==
    /\ op = "process_poms_under"
    /\ locals.pc = "for pom"
    /\ IF locals.poms = << >>
       THEN /\ result' = locals.changed
            /\ locals' = NoLocals
       ELSE LET path == Head(locals.poms)
                r == update_parent_version_in_pom(files[path], arg.new_version,
                                                  arg.parent_artifact_ids)
            IN /\ result' = result
               /\ IF r.raised \/ ~r.has_text
                  THEN locals' = [locals EXCEPT !.poms = Tail(@)]
                  ELSE IF wants_write(arg.write)
                  THEN locals' = [locals EXCEPT !.pc = "copy2",
                                                !.old_version = r.old_version,
                                                !.xml_text = r.xml_text]
                  ELSE locals' = [locals EXCEPT
                                    !.poms = Tail(@),
                                    !.changed = Append(@, <<path, r.old_version,
                                                            arg.new_version>>)]
    /\ UNCHANGED <<G, op, arg, flags, pom, extracted, projects, files>>

\* variant: no backup is made
copy2_skipped(fs, src, dst) == fs

\* shutil.copy2(src, dst)
copy2(fs, src, dst) == (dst :> fs[src]) @@ fs

\* backup = pom.with_suffix('.xml.bak'); shutil.copy2(pom, backup)
CopyBackup ==
    /\ op = "process_poms_under"
    /\ locals.pc = "copy2"
    /\ LET path == Head(locals.poms)
       IN files' = copy2(files, path, with_suffix(path, ".xml.bak"))
    /\ locals' = [locals EXCEPT !.pc = "write"]
    /\ UNCHANGED <<G, op, arg, result, flags, pom, extracted, projects>>

\* with open(pom, 'w') as f: f.write(xml_text); changed.append(...)
WritePom ==
    /\ op = "process_poms_under"
    /\ locals.pc = "write"
    /\ LET path == Head(locals.poms)
       IN /\ files' = [files EXCEPT ![path] = locals.xml_text]
          /\ locals' = [locals EXCEPT
                           !.pc = "for pom",
                           !.poms = Tail(@),
                           !.changed = Append(@, <<path, locals.old_version,
                                                   arg.new_version>>)]
    /\ UNCHANGED <<G, op, arg, result, flags, pom, extracted, projects>>

NextParent ==
    \/ \E a \in ParentArgs : CallProcessPomsUnder(a)
    \/ NextPom
    \/ CopyBackup
    \/ WritePom

SpecParent == InitParent /\ [][NextParent]_vars

\* a pom.xml has to be changed: it has a parent version (its text without
\* surrounding blanks) other than the new one and, when a filter is given, a
\* parent artifactId of the filter
NeedsChange(c, a) ==
    /\ c.wellformed
    /\ c.has_parent
    /\ c.version # None
    /\ strip(c.version) # a.new_version
    /\ a.parent_artifact_ids.given =>
          /\ c.artifactId # None
          /\ strip(c.artifactId) \in a.parent_artifact_ids.ids

\* one entry for every pom.xml of the tree that has to be changed, in path
\* order
ExpectedEntries(root, a) ==
    LET paths == SelectSeq(find_poms(root), LAMBDA p : NeedsChange(root[p], a))
    IN [i \in 1..Len(paths) |->
          <<paths[i], strip(root[paths[i]].version), a.new_version>>]

\* process_poms_under has returned
ParentDone == op = "process_poms_under" /\ locals.pc = "idle"

\* C21: with write=False no file is modified and no backup is created, and
\* the returned list is the one a write=True run over the same tree returns:
\* one entry (pom, old_version, new_version) for each pom.xml that has to be
\* changed.
C21_DryRunReturnsSameEntries ==
    op = "process_poms_under" =>
        /\ ~arg.write => files = arg.root_dir
        /\ locals.pc = "idle" => result = ExpectedEntries(arg.root_dir, arg)

\* a dry run with a filter has returned one entry for a tree of two POMs
C21_Witness ==
    /\ ParentDone
    /\ ~arg.write
    /\ arg.parent_artifact_ids.given
    /\ Len(result) = 1
    /\ Cardinality({p \in DOMAIN files : is_pom_xml(p)}) = 2

\* the path of the backup of a pom.xml
BackupOf(path) == path \o ".bak"

\* C30: with write=True a pom.xml is overwritten only when pom.xml.bak holds
\* its content from before the change, the backup being made in an earlier
\* step than the overwrite; every POM that has to be changed ends up changed
\* and backed up, and a POM that needs no change is neither backed up nor
\* rewritten.
C30_BackupBeforeOverwrite ==
    /\ [](IF op # "process_poms_under" THEN TRUE
          ELSE \A path \in DOMAIN arg.root_dir :
                  IF ~is_pom_xml(path) THEN TRUE
                  ELSE /\ files[path] # arg.root_dir[path] =>
                            /\ BackupOf(path) \in DOMAIN files
                            /\ files[BackupOf(path)] = arg.root_dir[path]
                       /\ ~NeedsChange(arg.root_dir[path], arg) =>
                            /\ files[path] = arg.root_dir[path]
                            /\ BackupOf(path) \in DOMAIN files
                                  <=> BackupOf(path) \in DOMAIN arg.root_dir
                            /\ BackupOf(path) \in DOMAIN files =>
                                  files[BackupOf(path)] = arg.root_dir[BackupOf(path)]
                       /\ (locals.pc = "idle" /\ arg.write
                           /\ NeedsChange(arg.root_dir[path], arg)) =>
                            /\ files[path] =
                                  [arg.root_dir[path] EXCEPT !.version = arg.new_version]
                            /\ files[BackupOf(path)] = arg.root_dir[path])
    /\ [][\A path \in DOMAIN files :
            (is_pom_xml(path) /\ files'[path] # files[path]) =>
                /\ BackupOf(path) \in DOMAIN files
                /\ files[BackupOf(path)] = files[path]]_vars

\* a writing run has returned: one POM was rewritten over an old backup, the
\* other needed no change and kept its old backup
C30_Witness ==
    /\ ParentDone
    /\ arg.write
    /\ Len(result) = 1
    /\ \E p, q \in DOMAIN arg.root_dir :
          /\ is_pom_xml(p) /\ is_pom_xml(q)
          /\ files[p] # arg.root_dir[p]
          /\ BackupOf(p) \in DOMAIN arg.root_dir
          /\ files[BackupOf(p)] = arg.root_dir[p]
          /\ files[q] = arg.root_dir[q]
          /\ arg.root_dir[q].has_parent
          /\ BackupOf(q) \in DOMAIN files
          /\ files[BackupOf(q)] = StaleBackup

----------------------------------------------------------------------------
(* C22, C23 *)

\* the directed u -> v paths of H with k edges, as node lists
PathsOfLength(H, u, v, k) ==
    {p \in [1..(k + 1) -> H.nodes] :
        /\ p[1] = u
        /\ p[k + 1] = v
        /\ \A i \in 1..k : <<p[i], p[i + 1]>> \in H.edges}

\* the shortest directed u -> v paths of H, for v reachable from u
ShortestPathsBetween(H, u, v) == PathsOfLength(H, u, v, Dist(H, u, v))

\* the ordered pairs of distinct requested identifiers with a path in H
ConnectedPairs(H, R) ==
    {pr \in R \X R : pr[1] # pr[2] /\ HasPath(H, pr[1], pr[2])}

\* the edges of a path, inverted
InvertedEdges(p) == {<<p[i + 1], p[i]>> : i \in 1..(Len(p) - 1)}

RECURSIVE InvertedUnions(_, _)
\* the edge sets got by inverting one shortest path for each pair of prs
InvertedUnions(H, prs) ==
    IF prs = {} THEN {{}}
    ELSE LET pr == CHOOSE x \in prs : TRUE
         IN {InvertedEdges(p) \cup E :
                p \in ShortestPathsBetween(H, pr[1], pr[2]),
                E \in InvertedUnions(H, prs \ {pr})}

\* minimal_subgraph_for_artifacts has returned a graph
SubgraphReturned ==
    /\ op = "minimal_subgraph_for_artifacts"
    /\ result.kind = "graph"

\* C22: the edges of minimal_subgraph_for_artifacts(G, R) are the inverted
\* edges of one shortest directed u -> v path for every ordered pair (u, v) of
\* distinct identifiers of R with v reachable from u: every output edge (t, s)
\* has (s, t) in G, and for every such pair the output has a directed path
\* from v to u of length dist_G(u, v).
C22_InvertedUnionOfShortestPaths ==
    SubgraphReturned =>
        LET prs == ConnectedPairs(G, Elems(arg))
        IN /\ result.H.edges \in InvertedUnions(G, prs)
           /\ \A ed \in result.H.edges : <<ed[2], ed[1]>> \in G.edges
           /\ \A pr \in prs :
                 Walk(result.H, pr[2], pr[1], Dist(G, pr[1], pr[2]))

\* two requested identifiers two edges apart with a choice of shortest paths,
\* one of which was taken
C22_Witness ==
    /\ SubgraphReturned
    /\ Len(arg) = 2
    /\ arg[1] # arg[2]
    /\ HasPath(G, arg[1], arg[2])
    /\ Dist(G, arg[1], arg[2]) = 2
    /\ Cardinality(ShortestPathsBetween(G, arg[1], arg[2])) = 2
    /\ Cardinality(result.H.edges) = 2

\* the request names at most one identifier, and G has it
AtMostOneRequested ==
    /\ op = "minimal_subgraph_for_artifacts"
    /\ Cardinality(Elems(arg)) <= 1
    /\ Elems(arg) \subseteq G.nodes

\* C23: for a request of zero or one distinct identifier of G (repeated or
\* not, with a self-loop or not) minimal_subgraph_for_artifacts returns the
\* graph with exactly those nodes and no edges.
C23_SingleRequestGivesBareNodes ==
    AtMostOneRequested =>
        /\ result.kind = "graph"
        /\ result.H.nodes = Elems(arg)
        /\ result.H.edges = {}

\* one identifier with a self-loop, requested twice
C23_Witness ==
    /\ AtMostOneRequested
    /\ Len(arg) = 2
    /\ <<arg[1], arg[1]>> \in G.edges
    /\ result.H.nodes = {arg[1]}

----------------------------------------------------------------------------
(* C24, C25 *)

\* H with every edge turned round
Flip(H) == [nodes |-> H.nodes, edges |-> {<<ed[2], ed[1]>> : ed \in H.edges}]

RECURSIVE KeyChains(_)
\* the chains of nested keys of t, from a top-level key downwards; every
\* occurrence of a key is the end of one chain
KeyChains(t) ==
    UNION {{<<c>>} \cup {<<c>> \o ch : ch \in KeyChains(t[c])} : c \in DOMAIN t}

\* the nodes other than m that m reaches in H
TransitiveSet(H, m) == {n \in H.nodes \ {m} : HasPath(H, m, n)}

\* t is a shortest-path tree of m in H: every node m reaches is a key once,
\* at the depth of its distance from m, under a node one edge before it
ShortestPathTree(H, m, t) ==
    /\ \A n \in TransitiveSet(H, m) :
          Cardinality({ch \in KeyChains(t) : ch[Len(ch)] = n}) = 1
    /\ \A ch \in KeyChains(t) :
          LET n == ch[Len(ch)]
              p == IF Len(ch) = 1 THEN m ELSE ch[Len(ch) - 1]
          IN /\ n \in TransitiveSet(H, m)
             /\ Len(ch) = Dist(H, m, n)
             /\ <<p, n>> \in H.edges
             /\ Dist(H, m, p) = Dist(H, m, n) - 1

\* C24: in the shortest-path tree of m every transitive dependency of m is a
\* key exactly once, at the nesting depth of its BFS distance from m, and
\* every parent-child pair is an edge of G (of the reversed graph for the
\* dependents tree) from a node one step nearer to m.
C24_ShortestTreeDepthIsDistance ==
    /\ op = "get_transitive_dependencies_tree" => ShortestPathTree(G, arg, result)
    /\ op = "get_transitive_dependents_tree" => ShortestPathTree(Flip(G), arg, result)

\* a dependents tree with a key at depth 2 that two nodes at depth 1 lead to
C24_Witness ==
    /\ op = "get_transitive_dependents_tree"
    /\ \E ch \in KeyChains(result) :
          /\ Len(ch) = 2
          /\ Cardinality(ShortestParents(Flip(G), arg, ch[2])) = 2

RECURSIVE SimplePathsFrom(_, _, _)
\* the node lists n1, ..., nk (k >= 1) of the directed paths that leave
\* node last and repeat no node and no node of seen
SimplePathsFrom(H, last, seen) ==
    UNION {{<<n>>} \cup {<<n>> \o sp : sp \in SimplePathsFrom(H, n, seen \cup {n})} :
              n \in {x \in H.nodes : <<last, x>> \in H.edges /\ x \notin seen}}

\* t has a key for every simple path of H from m and so for every node m reaches
CompleteTree(H, m, t) ==
    /\ SimplePathsFrom(H, m, {m}) \subseteq KeyChains(t)
    /\ TransitiveSet(H, m) \subseteq TreeKeys(t)

\* C25: the all-paths tree of m has the chain of nested keys n1, ..., nk for
\* every simple directed path m -> n1 -> ... -> nk, so a node reachable
\* through two parents is a key under both, and its keys include every
\* transitive dependency of m (in the reversed graph for the dependents tree).
C25_AllPathsTreeComplete ==
    /\ op = "get_transitive_dependencies_tree all_paths" => CompleteTree(G, arg, result)
    /\ op = "get_transitive_dependents_tree all_paths" => CompleteTree(Flip(G), arg, result)

\* a node is a key under two parents, one of which is the other's child
C25_Witness ==
    /\ op = "get_transitive_dependencies_tree all_paths"
    /\ \E c \in DOMAIN result : \E n \in DOMAIN result[c] :
          /\ n \in DOMAIN result
          /\ n # arg
          /\ <<c, n>> \in SimplePathsFrom(G, arg, {arg})

----------------------------------------------------------------------------
(* build_dependency_graph over a whole directory *)

\* the well-formed descriptors of a directory: an artifactId and at most one
\* <dependency> element
DirectoryPoms ==
    {p \in Poms : p.artifactId # None /\ Cardinality(p.deps) <= 1}

RECURSIVE DirectoriesOf(_)
\* the sets of up to n different descriptors
DirectoriesOf(n) ==
    IF n = 0 THEN {{}}
    ELSE LET smaller == DirectoriesOf(n - 1)
         IN smaller \cup {D \cup {p} : D \in smaller, p \in DirectoryPoms}

\* the flag settings of the directory runs
DirectoryFlags ==
    [include_group_id : BOOLEAN,
     included_groups : {{}, {"g1"}},
     excluded_groups : {{}, {"g1"}, {"g2"}}]

RECURSIVE Orders(_)
\* the orders in which the descriptors of D can be met
Orders(D) ==
    IF D = {} THEN {<< >>}
    ELSE UNION {{<<p>> \o rest : rest \in Orders(D \ {p})} : p \in D}

RECURSIVE build_dependency_graph(_, _, _)
\* the for loop of build_dependency_graph over the descriptors in the order
\* given; sys.exit(1) ends it
build_dependency_graph(H, poms, f) ==
    IF poms = << >> THEN [exit |-> 0, G |-> H]
    ELSE LET e == extract_dependencies(Head(poms), f)
         IN IF e.exit = 1 THEN [exit |-> 1, G |-> H]
            ELSE build_dependency_graph(build_step(H, e), Tail(poms), f)

\* a directory is there to be read
InitDirectory ==
    /\ G = DiGraph
    /\ op = "none"
    /\ arg \in DirectoriesOf(MaxPoms)
    /\ result = None
    /\ flags \in DirectoryFlags
    /\ pom = None
    /\ extracted = None
    /\ projects = {}
    /\ locals = NoLocals
    /\ files = NoFiles

\* build_dependency_graph(directory, ...) with the descriptors met in the
\* order given
BuildDirectory(order) ==
    /\ op = "none"
    /\ op' = "build_dependency_graph(directory)"
    /\ pom' = order
    /\ LET built == build_dependency_graph(DiGraph, order, flags)
       IN /\ result' = IF built.exit = 1 THEN "exit 1" ELSE "built"
          /\ G' = built.G
    /\ UNCHANGED <<arg, flags, extracted, projects, locals, files>>

NextDirectory == \E order \in Orders(arg) : BuildDirectory(order)

SpecDirectory == InitDirectory /\ [][NextDirectory]_vars

----------------------------------------------------------------------------
(* C26, C27 *)

\* a directory has been built
DirectoryBuilt == op = "build_dependency_graph(directory)" /\ result = "built"

\* C26: the node set and the edge set of the graph built from a set of
\* well-formed descriptors are the same for every order in which the
\* descriptors are processed, the flags being the same.
C26_GraphIndependentOfOrder ==
    DirectoryBuilt =>
        \A other \in Orders(arg) :
            LET built == build_dependency_graph(DiGraph, other, flags)
            IN /\ built.exit = 0
               /\ built.G.nodes = G.nodes
               /\ built.G.edges = G.edges

\* two projects of which one is a dependency of the other, both with an edge
\* in the graph, were processed
C26_Witness ==
    /\ DirectoryBuilt
    /\ Len(pom) = 2
    /\ \E d \in pom[1].deps : ExpectedId(d) = ExpectedId(pom[2])
    /\ \E ed \in G.edges : ed[1] = ExpectedId(pom[1])
    /\ \E ed \in G.edges : ed[1] = ExpectedId(pom[2]) /\ ed[2] # ExpectedId(pom[2])

\* the identifier without its 'group:' prefix: the text after the first ':'
StripGroup(n) ==
    IF \E i \in 1..Len(n) : SubSeq(n, i, i) = ":"
    THEN LET i == CHOOSE k \in 1..Len(n) :
                     /\ SubSeq(n, k, k) = ":"
                     /\ \A j \in 1..(k - 1) : SubSeq(n, j, j) # ":"
         IN SubSeq(n, i + 1, Len(n))
    ELSE n

\* the image of a graph under StripGroup
StripGroups(H) ==
    [nodes |-> {StripGroup(n) : n \in H.nodes},
     edges |-> {<<StripGroup(ed[1]), StripGroup(ed[2])>> : ed \in H.edges}]

\* the graph of the same descriptors, order and filters in the display mode given
BuiltWith(include_group_id) ==
    build_dependency_graph(DiGraph, pom,
                           [flags EXCEPT !.include_group_id = include_group_id]).G

\* C27: for the same descriptors and filters the graph built with
\* include_group_id=False is the image of the graph built with
\* include_group_id=True under the map that strips the 'group:' prefix, and
\* none of its nodes contains ':'.
C27_UnqualifiedGraphIsImage ==
    DirectoryBuilt =>
        /\ G = BuiltWith(flags.include_group_id)
        /\ BuiltWith(FALSE) = StripGroups(BuiltWith(TRUE))
        /\ \A n \in BuiltWith(FALSE).nodes : StripGroup(n) = n

\* an unqualified graph built under a filter that dropped a project; two
\* nodes of the qualified graph fall together in it
C27_Witness ==
    /\ DirectoryBuilt
    /\ ~flags.include_group_id
    /\ flags.excluded_groups # {}
    /\ \E i \in 1..Len(pom) : ~PassingProject(pom[i])
    /\ Cardinality(G.nodes) < Cardinality(BuiltWith(TRUE).nodes)
    /\ G.edges # {}

----------------------------------------------------------------------------
(* C29 *)

\* C29: lines that do not decode as UTF-8 are skipped without effect:
\* _process_log_file returns the flags, the error class and the final error
\* block it returns for the log with those lines deleted; such a line between
\* two error lines does not end the block, and the scan goes on to the end of
\* the file.
C29_UndecodableLinesHaveNoEffect ==
    op = "_process_log_file" =>
        LET clean == process_log_file(Decoded(arg))
        IN /\ result.detected_success = clean.detected_success
           /\ result.detected_failure = clean.detected_failure
           /\ result.file_error_class = clean.file_error_class
           /\ result.last_error_block = clean.last_error_block
           /\ result.unreadable = clean.unreadable

\* an undecodable line stands between two error lines of the final block,
\* and the failure marker after them was seen
C29_Witness ==
    /\ op = "_process_log_file"
    /\ Len(arg) = 4
    /\ ErrorLine(arg[1])
    /\ arg[2] = InvalidUtf8
    /\ ErrorLine(arg[3])
    /\ result.detected_failure
    /\ result.file_error_class = "Compilation Failure"
    /\ Len(result.last_error_block) = 2

----------------------------------------------------------------------------
(* evaluate_build_logs_data of evaluate_mvn_build.py *)

\* the contents of the files: the lines, and ReadError where open or the
\* read raises
LogContents ==
    {<< >>,
     <<"[INFO] BUILD SUCCESS">>,
     <<"[INFO] BUILD FAILURE", "[INFO] BUILD SUCCESS">>,
     <<"[ERROR] Compilation failure", "[INFO] BUILD FAILURE">>,
     <<"[INFO] BUILD FAILURE">>,
     <<"[ERROR] Could not resolve dependencies", "[INFO] BUILD FAILURE">>,
     <<ReadError>>,
     <<"[INFO] BUILD SUCCESS", ReadError>>,
     <<"[INFO] BUILD FAILURE", "[ERROR] Compilation failure", ReadError>>,
     <<InvalidUtf8, "[INFO] ok">>}

RECURSIVE LogDirsOf(_)
\* the directories of up to n files; one of the file names is not a log
LogDirsOf(n) ==
    IF n = 0 THEN {<< >>}
    ELSE LET smaller == LogDirsOf(n - 1)
         IN smaller \cup
            UNION {{(name :> c) @@ d :
                        c \in LogContents,
                        name \in {"b.log", "a.log", "c.xml", "d.log"} \ DOMAIN d} :
                      d \in smaller}

\* the name matches '*.log'
is_log(name) == Len(name) >= 4 /\ SubSeq(name, Len(name) - 3, Len(name)) = ".log"

\* sorted(log_dir.glob('*.log'))
glob_logs(dir) == sorted({name \in DOMAIN dir : is_log(name)})

\* the lists before the first file
NoLogs ==
    [success_files |-> << >>, failure_files_by_type |-> << >>, failure_count |-> 0,
     unreadable_files |-> << >>, error_blocks |-> << >>]

\* failure_files_by_type.setdefault(group_key, []).append(filename); the
\* dict is the list of its items in insertion order
setdefault_append(groups, group_key, filename) ==
    IF \E i \in 1..Len(groups) : groups[i].key = group_key
    THEN [i \in 1..Len(groups) |->
            IF groups[i].key = group_key
            THEN [groups[i] EXCEPT !.files = Append(@, filename)]
            ELSE groups[i]]
    ELSE Append(groups, [key |-> group_key, files |-> <<filename>>])

\* error_blocks[filename] = last_error_block, when the block is not empty
store_error_block(blocks, filename, entry) ==
    IF entry.last_error_block # << >>
    THEN (filename :> entry.last_error_block) @@ blocks
    ELSE blocks

\* variant: the success flag is looked at before the unreadable flag
classify_success_first(entry) ==
    IF entry.detected_success THEN "success"
    ELSE IF entry.unreadable THEN "unreadable"
    ELSE IF entry.detected_failure THEN "failure"
    ELSE "inconclusive"

\* the branch of the loop body an entry takes
classify(entry) ==
    IF entry.unreadable THEN "unreadable"
    ELSE IF entry.detected_success THEN "success"
    ELSE IF entry.detected_failure THEN "failure"
    ELSE "inconclusive"

\* the loop body of evaluate_build_logs_data for the file of the given name
evaluate_log_file(st, filename, entry) ==
    LET branch == classify(entry)
    IN IF branch = "success"
       THEN [st EXCEPT !.success_files = Append(@, filename)]
       ELSE IF branch = "failure"
       THEN [st EXCEPT
               !.failure_count = @ + 1,
               !.failure_files_by_type =
                   setdefault_append(@, IF entry.file_error_class # None
                                        THEN entry.file_error_class
                                        ELSE "Other Errors", filename),
               !.error_blocks = store_error_block(@, filename, entry)]
       ELSE [st EXCEPT
               !.unreadable_files = Append(@, filename),
               !.error_blocks = store_error_block(@, filename, entry)]

\* the dict returned
evaluation(st) ==
    [total_evaluated |-> Len(st.success_files) + st.failure_count,
     success_files |-> st.success_files,
     failure_count |-> st.failure_count,
     failure_files_by_type |-> st.failure_files_by_type,
     unreadable_files |-> st.unreadable_files,
     error_blocks |-> st.error_blocks]

\* a directory of build logs is there
InitEvaluate ==
    /\ G = DiGraph
    /\ op = "none"
    /\ arg = None
    /\ result = None
    /\ flags = NoFlags
    /\ pom = None
    /\ extracted = None
    /\ projects = {}
    /\ locals = NoLocals
    /\ files \in LogDirsOf(MaxLogs)

\* evaluate_build_logs_data(log_dir) up to the head of its loop
CallEvaluateBuildLogsData ==
    /\ op = "none"
    /\ op' = "evaluate_build_logs_data"
    /\ locals' = [pc |-> "for log_file", logs |-> glob_logs(files), st |-> NoLogs]
    /\ UNCHANGED <<G, arg, result, flags, pom, extracted, projects, files>>

\* one pass of the loop, or the return when no log is left
NextLogFile ==
    /\ op = "evaluate_build_logs_data"
    /\ locals.pc = "for log_file"
    /\ IF locals.logs = << >>
       THEN /\ result' = evaluation(locals.st)
            /\ locals' = NoLocals
       ELSE LET filename == Head(locals.logs)
                entry == process_log_file(files[filename])
            IN /\ locals' = [locals EXCEPT
                                !.logs = Tail(@),
                                !.st = evaluate_log_file(@, filename, entry)]
               /\ result' = result
    /\ UNCHANGED <<G, op, arg, flags, pom, extracted, projects, files>>

NextEvaluate == CallEvaluateBuildLogsData \/ NextLogFile

SpecEvaluate == InitEvaluate /\ [][NextEvaluate]_vars

----------------------------------------------------------------------------
(* C28 *)

\* the text m occurs in the line l
LineHas(l, m) ==
    \E i \in 1..Len(l) : \E j \in i..Len(l) : SubSeq(l, i, j) = m

\* a line of the file that decodes holds the marker m
HasMarker(content, m) ==
    \E i \in 1..Len(content) : content[i] # InvalidUtf8 /\ LineHas(content[i], m)

\* where the claim puts a log: an unreadable one among the unreadable files
\* whatever it holds, a readable one by its markers, success first
ExpectedPlace(content) ==
    IF ReadError \in Elems(content) THEN "unreadable"
    ELSE IF HasMarker(content, "BUILD SUCCESS") THEN "success"
    ELSE IF HasMarker(content, "BUILD FAILURE") THEN "failure"
    ELSE "unreadable"

\* the *.log names of the directory with the given place, sorted
LogsPlaced(dir, place) ==
    SelectSeq(sorted({name \in DOMAIN dir : is_log(name)}),
              LAMBDA name : ExpectedPlace(dir[name]) = place)

RECURSIVE AllFailureFiles(_)
\* the failure lists one after another
AllFailureFiles(groups) ==
    IF groups = << >> THEN << >>
    ELSE Head(groups).files \o AllFailureFiles(Tail(groups))

\* evaluate_build_logs_data has returned
Evaluated == op = "evaluate_build_logs_data" /\ locals.pc = "idle"

\* C28: every *.log of the directory is in exactly one of success_files, one
\* list of failure_files_by_type, or unreadable_files: an unreadable log among
\* the unreadable files whatever it holds, a readable log with BUILD SUCCESS
\* among the successes even if it has BUILD FAILURE too, a log with neither
\* marker among the unreadable files; total_evaluated is len(success_files) +
\* failure_count, failure_count is the total length of the failure lists, and
\* the files after an unreadable one are processed.
C28_EveryLogPlacedOnce ==
    Evaluated =>
        LET failures == AllFailureFiles(result.failure_files_by_type)
            placed == result.success_files \o failures \o result.unreadable_files
        IN /\ \A name \in DOMAIN files :
                 Cardinality({i \in 1..Len(placed) : placed[i] = name})
                     = IF is_log(name) THEN 1 ELSE 0
           /\ result.success_files = LogsPlaced(files, "success")
           /\ result.unreadable_files = LogsPlaced(files, "unreadable")
           /\ Elems(failures) = Elems(LogsPlaced(files, "failure"))
           /\ \A i, j \in 1..Len(result.failure_files_by_type) :
                 i # j => result.failure_files_by_type[i].key
                            # result.failure_files_by_type[j].key
           /\ result.failure_count = Len(failures)
           /\ result.total_evaluated = Len(result.success_files) + result.failure_count

\* the first log could not be read to its end after a BUILD SUCCESS line; the
\* second holds both markers and is the one success
C28_Witness ==
    /\ Evaluated
    /\ DOMAIN files = {"a.log", "b.log"}
    /\ ReadError \in Elems(files["a.log"])
    /\ HasMarker(files["a.log"], "BUILD SUCCESS")
    /\ HasMarker(files["b.log"], "BUILD FAILURE")
    /\ result.unreadable_files = <<"a.log">>
    /\ result.success_files = <<"b.log">>
    /\ result.total_evaluated = 1

====
